---- MODULE Spec2Model ----
(***************************************************************************)
(* Couple finance bot (src/app.py): the chat command engine over a         *)
(* spreadsheet ledger, its per-channel undo action and list caches, and    *)
(* the duplicate-event filter.                                             *)
(*                                                                         *)
(* The ledger is the sequence of data rows of the Transaction sheet: the   *)
(* row at position i has row index i + 1 (row 1 is the header).  Text is   *)
(* a sequence of tokens and a token a sequence of symbols: a digit, one    *)
(* of . , k m K M, or a word atom standing for a run of other letters.     *)
(***************************************************************************)
EXTENDS Integers, Sequences, FiniteSets, TLC

\* ------------------------------------------------------------------ bounds
MaxId == 2          \* rows the bot may append in one behaviour
MaxFail == 5        \* ordinal of the store call that may raise (0 = none)
MaxTarget == 3      \* largest positional argument typed by the user
MaxSteps == 4       \* commands handled in one behaviour

\* --------------------------------------------------------------- constants
UNDO_TTL == 600
DAY_SECONDS == 86400
MAX_PROCESSED_EVENTS == 100
KEPT_EVENTS == 50

Channels == {"c1"}
Instants == {0, 600, 601, 86400}

\* ------------------------------------------------------------- sequences
RECURSIVE SeqSum(_)
SeqSum(s) == IF s = <<>> THEN 0 ELSE Head(s) + SeqSum(Tail(s))

RECURSIVE Pow10(_)
Pow10(n) == IF n = 0 THEN 1 ELSE 10 * Pow10(n - 1)

Count(s, x) == Cardinality({i \in DOMAIN s : s[i] = x})

RemoveAt(s, i) == SubSeq(s, 1, i - 1) \o SubSeq(s, i + 1, Len(s))

\* x occurs in s as a contiguous run (Python's  x in s  on strings)
Infix(x, s) ==
    \E i \in 0..(Len(s) - Len(x)) : SubSeq(s, i + 1, i + Len(x)) = x

\* ----------------------------------------------------------- parse_amount
DigitChars == <<"0", "1", "2", "3", "4", "5", "6", "7", "8", "9">>
Digits == {DigitChars[i] : i \in 1..10}
Suffixes == {"k", "m", "K", "M"}
DigitVal(c) == (CHOOSE i \in 1..10 : DigitChars[i] = c) - 1

RECURSIVE DigitsVal(_)
DigitsVal(s) ==
    IF s = <<>> THEN 0
    ELSE 10 * DigitsVal(SubSeq(s, 1, Len(s) - 1)) + DigitVal(s[Len(s)])

AllIn(s, S) == \A i \in DOMAIN s : s[i] \in S

\* re.match(r'^\d+,\d+[mkMK]$', s)
IsCommaDecimal(s) ==
    \E c \in 2..(Len(s) - 2) :
        /\ s[c] = ","
        /\ AllIn(SubSeq(s, 1, c - 1), Digits)
        /\ AllIn(SubSeq(s, c + 1, Len(s) - 1), Digits)
        /\ s[Len(s)] \in Suffixes

ReplaceComma(s) == [i \in DOMAIN s |-> IF s[i] = "," THEN "." ELSE s[i]]
StripSym(s, S) == SelectSeq(s, LAMBDA c : c \notin S)

NoAmount == [kind |-> "none", v |-> 0]
RaisedAmount == [kind |-> "raise", v |-> 0]

\* ---- float arithmetic.  A natural too wide for one machine integer is a
\* sequence of limbs, least significant first; a double is m / 2^k with m < 2^53.
Limb == 10000

RECURSIVE BMul(_, _, _)
\* a * k + carry for a small k
BMul(a, k, carry) ==
    IF a = <<>>
    THEN IF carry = 0 THEN <<>> ELSE <<carry % Limb>> \o BMul(<<>>, k, carry \div Limb)
    ELSE <<(Head(a) * k + carry) % Limb>>
             \o BMul(Tail(a), k, (Head(a) * k + carry) \div Limb)

RECURSIVE BAdd(_, _, _)
\* a + b + carry
BAdd(a, b, carry) ==
    IF a = <<>> /\ b = <<>> THEN IF carry = 0 THEN <<>> ELSE <<carry>>
    ELSE IF a = <<>> THEN BAdd(<<0>>, b, carry)
    ELSE IF b = <<>> THEN BAdd(a, <<0>>, carry)
    ELSE <<(Head(a) + Head(b) + carry) % Limb>>
             \o BAdd(Tail(a), Tail(b), (Head(a) + Head(b) + carry) \div Limb)

RECURSIVE BDivRem(_, _, _)
\* quotient and remainder of a by a small k, from limb i down, rem carried in
BDivRem(a, k, i) ==
    IF i > Len(a) THEN [q |-> <<>>, r |-> 0]
    ELSE [q |-> <<(BDivRem(a, k, i + 1).r * Limb + a[i]) \div k>> \o BDivRem(a, k, i + 1).q,
          r |-> (BDivRem(a, k, i + 1).r * Limb + a[i]) % k]

RECURSIVE BNorm(_)
BNorm(a) == IF a # <<>> /\ a[Len(a)] = 0 THEN BNorm(SubSeq(a, 1, Len(a) - 1)) ELSE a

BLess(a, b) ==
    IF Len(a) # Len(b) THEN Len(a) < Len(b)
    ELSE \E i \in DOMAIN a : a[i] < b[i] /\ \A j \in (i + 1)..Len(a) : a[j] = b[j]

RECURSIVE BInc(_)
BInc(a) ==
    IF a = <<>> THEN <<1>>
    ELSE IF Head(a) < Limb - 1 THEN <<Head(a) + 1>> \o Tail(a)
    ELSE <<0>> \o BInc(Tail(a))

BOdd(a) == a # <<>> /\ a[1] % 2 = 1
BHalf(a) == BNorm(BDivRem(a, 2, 1).q)

RECURSIVE BToInt(_)
BToInt(a) == IF a = <<>> THEN 0 ELSE Head(a) + Limb * BToInt(Tail(a))

RECURSIVE BFromInt(_)
BFromInt(n) == IF n = 0 THEN <<>> ELSE <<n % Limb>> \o BFromInt(n \div Limb)

RECURSIVE TwoPow(_)
TwoPow(k) ==
    IF k >= 10 THEN BMul(TwoPow(k - 10), 1024, 0)
    ELSE IF k > 0 THEN BMul(TwoPow(k - 1), 2, 0)
    ELSE <<1>>

RECURSIVE Scale(_, _, _)
\* double N until it reaches lim (ten doublings at a time while they fit): N * 2^k
Scale(N, k, lim) ==
    IF BLess(BMul(N, 1024, 0), lim) THEN Scale(BMul(N, 1024, 0), k + 10, lim)
    ELSE IF BLess(N, lim) THEN Scale(BMul(N, 2, 0), k + 1, lim)
    ELSE [N |-> N, k |-> k]

\* round to nearest, ties to even, of q + r / den
Nearest(q, r, den) ==
    IF 2 * r > den \/ (2 * r = den /\ BOdd(q)) THEN BInc(q) ELSE q

Quotient(sc, den) ==
    [m |-> Nearest(BNorm(BDivRem(sc.N, den, 1).q), BDivRem(sc.N, den, 1).r, den),
     k |-> sc.k]

\* float(text) for the decimal n / 10^frac, n > 0: the nearest double
ToDouble(n, frac) ==
    Quotient(Scale(BFromInt(n), 0, BMul(TwoPow(52), Pow10(frac), 0)), Pow10(frac))

RECURSIVE RoundTo53(_, _, _, _, _)
\* the double nearest to P / 2^k: halve P until it fits 53 bits, then round
RoundTo53(P, k, round, sticky, lim) ==
    IF ~BLess(P, lim)
    THEN RoundTo53(BHalf(P), k - 1, BOdd(P), sticky \/ round, lim)
    ELSE [m |-> IF round /\ (sticky \/ BOdd(P)) THEN BInc(P) ELSE P, k |-> k]

\* num * mult in double arithmetic
Times(d, mult) ==
    RoundTo53(IF mult = 1000000 THEN BMul(BMul(d.m, 1000, 0), 1000, 0)
              ELSE BMul(d.m, mult, 0),
              d.k, FALSE, FALSE, TwoPow(53))

RECURSIVE Trunc(_, _)
\* int(m / 2^k)
Trunc(m, k) ==
    IF k = 0 THEN m
    ELSE IF k >= 10 THEN Trunc(BNorm(BDivRem(m, 1024, 1).q), k - 10)
    ELSE IF k > 0 THEN Trunc(BHalf(m), k - 1)
    ELSE Trunc(BMul(m, 2, 0), k + 1)

IntOf(d) == BToInt(Trunc(d.m, d.k))

\* int(float(text) * mult) for the decimal n / 10^frac
FloatTimes(n, frac, mult) == IF n = 0 THEN 0 ELSE IntOf(Times(ToDouble(n, frac), mult))

\* the position of the dot, one past the end when there is none
DotAt(num) ==
    IF Count(num, ".") = 0 THEN Len(num) + 1 ELSE CHOOSE i \in DOMAIN num : num[i] = "."

\* float(group 1) of r'^([\d.]+)([mkMK]?)$' times the suffix, truncated by int()
NumberValue(num, mult) ==
    IF Count(num, ".") > 1 \/ StripSym(num, {"."}) = <<>> THEN RaisedAmount
    ELSE [kind |-> "int",
          v |-> FloatTimes(DigitsVal(StripSym(num, {"."})),
                           IF DotAt(num) > Len(num) THEN 0 ELSE Len(num) - DotAt(num),
                           mult)]

\* the match of r'^([\d.]+)([mkMK]?)$' on the cleaned string, and its value
MatchNumber(s2, hasSuffix) ==
    LET num == IF hasSuffix THEN SubSeq(s2, 1, Len(s2) - 1) ELSE s2
        mult == IF ~hasSuffix THEN 1
                ELSE IF s2[Len(s2)] \in {"m", "M"} THEN 1000000 ELSE 1000
    IN  IF num = <<>> \/ ~AllIn(num, Digits \cup {"."}) THEN NoAmount
        ELSE NumberValue(num, mult)

\* the comma rule: a decimal comma before a suffix, a thousands separator otherwise
CommaRule(s1) == IF IsCommaDecimal(s1) THEN ReplaceComma(s1) ELSE StripSym(s1, {","})

HasSuffix(s2) == s2 # <<>> /\ s2[Len(s2)] \in Suffixes

SuffixMatch(s2) == MatchNumber(s2, HasSuffix(s2))

parse_amount(tok) == SuffixMatch(CommaRule(StripSym(tok, {"₩", " "})))

\* a parsed zero counts as an amount
Truthy_zero(a) == a.kind = "int"

\* Python truthiness of parse_amount's result:  if parsed  /  if not amount
Truthy(a) == a.kind = "int" /\ a.v # 0

\* the least member of a set of positions, 0 for the empty set
FirstOf(S) == IF S = {} THEN 0 ELSE CHOOSE i \in S : \A j \in S : i <= j

\* the greatest member of a set of positions, 0 for the empty set
LastOf(S) == IF S = {} THEN 0 ELSE CHOOSE i \in S : \A j \in S : i >= j

\* the loop of extract_amount_from_text over the parsed words
FirstAmount(words, parsed, first) ==
    IF \E i \in DOMAIN parsed : parsed[i].kind = "raise"
    THEN [kind |-> "raise", amount |-> 0, rest |-> <<>>]
    ELSE IF first = 0 THEN [kind |-> "none", amount |-> 0, rest |-> words]
    ELSE [kind |-> "int", amount |-> parsed[first].v, rest |-> RemoveAt(words, first)]

ParsedWords(words) == [i \in DOMAIN words |-> parse_amount(words[i])]

TruthyAt(parsed) == FirstOf({i \in DOMAIN parsed : Truthy(parsed[i])})

AmountIn(words, parsed) == FirstAmount(words, parsed, TruthyAt(parsed))

\* extract_amount_from_text: the first word with a truthy amount wins
extract_amount_from_text(words) == AmountIn(words, ParsedWords(words))

\* ------------------------------------------------------ transaction parsing
NowMonth == 3       \* the calendar month the modelled instants lie in
NowYear == 2024     \* the calendar year the modelled instants lie in

W(a) == <<a>>       \* the token made of one word atom

\* keywords of app.py that occur as substrings of a word atom
KeywordsOf(sym) ==
    CASE sym = "gas" -> {"gas"}
      [] sym = "lunch" -> {"lunch"}
      [] sym = "meat" -> {"eat", "meat"}
      [] sym = "ticket" -> {"ticket"}
      [] sym = "repay" -> {"repay"}
      [] sym = "internet" -> {"internet"}
      [] sym = "salary" -> {"salary"}
      [] sym = "loan" -> {"loan"}
      [] sym = "update" -> {"date"}
      [] sym = "date" -> {"date"}
      [] sym = "emergency" -> {"emergency"}
      [] sym = "nhận lại/trả nợ:" -> {"nợ", "trả nợ", "nhận lại"}
      [] OTHER -> {}

\* keywords of app.py made of two words, as they occur over two adjacent words
PhraseOf(a, b) ==
    CASE a = "jacob" /\ b = "fee" -> {"jacob fee"}
      [] a = "fee" /\ b = "jacob" -> {"fee jacob"}
      [] OTHER -> {}

\* some keyword of kws is a substring of the text
TextHas(text, kws) ==
    \/ \E i \in DOMAIN text : \E j \in DOMAIN text[i] : KeywordsOf(text[i][j]) \cap kws # {}
    \/ \E i \in 1..(Len(text) - 1) :
           /\ Len(text[i]) = 1 /\ Len(text[i + 1]) = 1
           /\ PhraseOf(text[i][1], text[i + 1][1]) \cap kws # {}

\* the declared order of CATEGORIES, with the keywords of the vocabulary
CATEGORIES ==
    << [name |-> "Food & Dining", keywords |-> {"lunch", "eat"}],
       [name |-> "Groceries", keywords |-> {"meat"}],
       [name |-> "Transport", keywords |-> {"gas", "ticket"}],
       [name |-> "Entertainment", keywords |-> {"ticket"}],
       [name |-> "Loan & Debt", keywords |-> {"loan"}],
       [name |-> "Business", keywords |-> {"jacob fee"}],
       [name |-> "Income", keywords |-> {"salary"}] >>
INCOME_KEYWORDS_EXACT == {"salary", "pay", "fee", "bonus"}
LOAN_KEYWORDS == {"loan", "nợ"}
REPAY_KEYWORDS == {"repay", "trả nợ", "nhận lại"}
MONTH_NAMES ==
    [m \in {"jan", "mar", "dec"} |-> CASE m = "jan" -> 1 [] m = "mar" -> 3 [] OTHER -> 12]
DEFAULT_BUDGETS == {"Food & Dining", "Transport"}

\* str.lower() on one symbol: the symbols and word atoms that have a case
LowerSym(c) ==
    CASE c = "K" -> "k" [] c = "M" -> "m"
      [] c = "Dec" -> "dec" [] c = "Ticket" -> "ticket" [] c = "LUNCH" -> "lunch"
      [] OTHER -> c

LowerTok(tok) == [j \in DOMAIN tok |-> LowerSym(tok[j])]

\* text.lower() on the symbols that have a case
Lower(words) == [i \in DOMAIN words |-> LowerTok(words[i])]

\* the positions in CATEGORIES of the categories with a keyword in the text
CategoryHits(low) == {i \in DOMAIN CATEGORIES : TextHas(low, CATEGORIES[i].keywords)}

\* the category declared last among the hits
detect_category_last_hit(text) ==
    IF CategoryHits(Lower(text)) = {} THEN "Other"
    ELSE CATEGORIES[LastOf(CategoryHits(Lower(text)))].name

detect_category(text) ==
    IF CategoryHits(Lower(text)) = {} THEN "Other"
    ELSE CATEGORIES[FirstOf(CategoryHits(Lower(text)))].name

is_income(text, category) ==
    \/ category = "Income"
    \/ \E i \in DOMAIN text :
           Len(text[i]) = 1 /\ LowerSym(text[i][1]) \in INCOME_KEYWORDS_EXACT

is_loan_transaction(text) == TextHas(Lower(text), LOAN_KEYWORDS)
is_repayment(text) == TextHas(Lower(text), REPAY_KEYWORDS)

\* the month of a lower-cased token that is a month name
MonthNamed(low) ==
    IF Len(low) = 1 /\ low[1] \in DOMAIN MONTH_NAMES
    THEN [found |-> TRUE, month |-> MONTH_NAMES[low[1]],
          lastYear |-> MONTH_NAMES[low[1]] > NowMonth,
          year |-> IF MONTH_NAMES[low[1]] > NowMonth THEN NowYear - 1 ELSE NowYear]
    ELSE [found |-> FALSE, month |-> 0, lastYear |-> FALSE, year |-> 0]

\* the match of r'^(\d{4})-(\d{1,2})$'
IsYearMonth(low) ==
    /\ Len(low) \in {6, 7}
    /\ AllIn(SubSeq(low, 1, 4), Digits)
    /\ low[5] = "-"
    /\ AllIn(SubSeq(low, 6, Len(low)), Digits)

\* int(match.group(1)), int(match.group(2)): whatever the digits say
YearMonth(low) ==
    [found |-> TRUE, month |-> DigitsVal(SubSeq(low, 6, Len(low))),
     lastYear |-> DigitsVal(SubSeq(low, 1, 4)) = NowYear - 1,
     year |-> DigitsVal(SubSeq(low, 1, 4))]

MonthOf(low) == IF IsYearMonth(low) THEN YearMonth(low) ELSE MonthNamed(low)

\* every month name resolves to the current year
parse_month_this_year(tok) ==
    [MonthOf(LowerTok(tok)) EXCEPT !.lastYear = FALSE, !.year = NowYear]

\* parse_month on one token: YYYY-M[M], or a month name (year: this one or the
\* last one)
parse_month(tok) == MonthOf(LowerTok(tok))

MonthAt(words, first) ==
    IF first = 0
    THEN [text |-> words, month |-> NowMonth, lastYear |-> FALSE, year |-> NowYear,
          is_backdated |-> FALSE]
    ELSE [text |-> RemoveAt(words, first),
          month |-> parse_month(words[first]).month,
          lastYear |-> parse_month(words[first]).lastYear,
          year |-> parse_month(words[first]).year,
          is_backdated |-> ~(parse_month(words[first]).year = NowYear
                             /\ parse_month(words[first]).month = NowMonth)]

extract_month_from_text(words) ==
    MonthAt(words, FirstOf({i \in DOMAIN words : parse_month(words[i]).found}))

PersonNames == {"jacob", "naomi", "joint"}
Capitalize(p) ==
    CASE p = "jacob" -> "Jacob" [] p = "naomi" -> "Naomi" [] OTHER -> "Joint"
IsPerson(tok) == Len(tok) = 1 /\ tok[1] \in PersonNames

PersonAt(low, last_hit) ==
    [person |-> IF last_hit = 0 THEN "" ELSE Capitalize(low[last_hit][1]),
     text |-> SelectSeq(low, LAMBDA t : ~IsPerson(t))]

PersonIn(low) == PersonAt(low, LastOf({i \in DOMAIN low : IsPerson(low[i])}))

\* extract_person_from_text: the last person token wins, the text is lowered
extract_person_from_text(words) == PersonIn(Lower(words))

\* the active rows of the Fixed Bills sheet in sheet order, each with its key
FixedBills ==
    << [key |-> "gas", category |-> "Gas", amount |-> 100000, person |-> "Both"],
       [key |-> "internet", category |-> "Internet", amount |-> 30000, person |-> "Naomi"] >>

\* the aliases of find_fixed_bill whose key names a bill of the sheet
Aliases == [a \in {"gas", "wifi", "internet"} |-> IF a = "gas" THEN "gas" ELSE "internet"]

\* the keys a word atom is a substring of
InsideOf(sym) ==
    CASE sym \in {"ga", "gas"} -> {"gas"} [] sym = "internet" -> {"internet"} [] OTHER -> {}

NoBill == [found |-> FALSE, bill |-> [key |-> "", category |-> "", amount |-> 0, person |-> ""]]
BillAt(i) == IF i = 0 THEN NoBill ELSE [found |-> TRUE, bill |-> FixedBills[i]]

\* text_lower in bills
ExactBill(low) == FirstOf({i \in DOMAIN FixedBills : low = <<W(FixedBills[i].key)>>})

\* text_lower in key or key in text_lower, the first bill of the sheet that fits
SubstringBill(low) ==
    FirstOf({i \in DOMAIN FixedBills :
                \/ Len(low) = 1 /\ Len(low[1]) = 1 /\ FixedBills[i].key \in InsideOf(low[1][1])
                \/ TextHas(low, {FixedBills[i].key})})

\* the alias of the whole text, looked up in the keys
AliasBill(low) ==
    IF Len(low) = 1 /\ Len(low[1]) = 1 /\ low[1][1] \in DOMAIN Aliases
    THEN FirstOf({i \in DOMAIN FixedBills : FixedBills[i].key \in InsideOf(Aliases[low[1][1]])})
    ELSE 0

FindBill(low) ==
    IF ExactBill(low) # 0 THEN ExactBill(low)
    ELSE IF SubstringBill(low) # 0 THEN SubstringBill(low)
    ELSE AliasBill(low)

\* no bill is ever found
find_fixed_bill_none(text, haveSheet) == NoBill

\* find_fixed_bill: exact key, substring either way, alias (bills is {} without a sheet)
find_fixed_bill(text, haveSheet) ==
    IF haveSheet THEN BillAt(FindBill(Lower(text))) ELSE NoBill

NoTx == [kind |-> "none"]
RaisedTx == [kind |-> "raise"]

\* the transaction record parse_transaction builds from its parts
BuildTx(m, person0, a, description, fb, category0, repay) ==
    [kind |-> "tx",
     person |-> IF ~fb.found THEN person0
                ELSE IF fb.bill.person # "Both" THEN fb.bill.person ELSE "Joint",
     amount |-> a.amount,
     description |-> description,
     category |-> IF repay THEN "Loan & Debt" ELSE category0,
     type |-> IF repay \/ is_income(description, category0) THEN "Income" ELSE "Expense",
     fixed_bill |-> fb.found,
     year |-> m.year,
     month |-> m.month,
     is_backdated |-> m.is_backdated,
     is_loan |-> is_loan_transaction(description)]

\* the category before the repayment rule: fixed bill, loan keyword, detect_category
Category0(description, fb) ==
    IF fb.found THEN fb.bill.category
    ELSE IF is_loan_transaction(description) THEN "Loan & Debt"
    ELSE detect_category(description)

\* the repayment rule gives way to a fixed bill
Classified_bill_first(m, person0, a, description, fb) ==
    BuildTx(m, person0, a, description, fb, Category0(description, fb),
            is_repayment(description) /\ ~fb.found)

Classified(m, person0, a, description, fb) ==
    BuildTx(m, person0, a, description, fb, Category0(description, fb),
            is_repayment(description))

Described(m, person0, a, description, haveSheet) ==
    Classified(m, person0, a, description, find_fixed_bill(description, haveSheet))

WithAmount(m, person0, a, haveSheet) ==
    IF a.kind = "raise" THEN RaisedTx
    ELSE IF a.kind = "none" THEN NoTx
    ELSE Described(m, person0, a,
                   IF a.rest = <<>> THEN <<W("Transaction")>> ELSE a.rest, haveSheet)

WithPerson(m, p, user_name, haveSheet) ==
    WithAmount(m, IF p.person = "" THEN user_name ELSE p.person,
               extract_amount_from_text(p.text), haveSheet)

\* business_person_keywords: a payment that mentions a person
BUSINESS_PERSON_KEYWORDS == {"jacob fee", "fee jacob"}
is_business_payment(text) == TextHas(Lower(text), BUSINESS_PERSON_KEYWORDS)

\* a business payment keeps the sender and every word of the text
WithMonth(m, user_name, haveSheet) ==
    WithPerson(m,
               IF is_business_payment(m.text) THEN [person |-> "", text |-> m.text]
               ELSE extract_person_from_text(m.text),
               user_name, haveSheet)

\* parse_transaction: month, person, amount, then the classification
parse_transaction(text, user_name, haveSheet) ==
    WithMonth(extract_month_from_text(text), user_name, haveSheet)

\* ----------------------------------------------------------------- state
VARIABLES
    ledger,             \* data rows of the Transaction sheet, in row order
    nextId,             \* the identity the next appended row gets
    last_action,        \* channel -> the pending undo action, or NoAction
    last_list_results,  \* channel -> the cached list, or NoList
    last_debt_list,     \* channel -> the cached debt list, or NoList
    shared,             \* channel -> both caches hold the same list object
    now,                \* the clock, in seconds
    creds,              \* GOOGLE_CREDENTIALS is set
    last,               \* the last handler run: its command and its outcome
    pre,                \* the ledger as that handler found it
    steps,              \* the number of commands handled so far
    processed_events,   \* the seen identifiers: the watched one, and how many others
    cut,                \* the seen-set was cut back since it first held the watched one
    dropped,            \* a delivery of the watched identifier was dropped as a duplicate
    call,               \* a function applied on its own: its name, argument and result
    threads             \* request thread -> where it stands in a free-form request

vars == <<ledger, nextId, last_action, last_list_results, last_debt_list,
          shared, now, creds, last, pre, steps, processed_events, cut, dropped, call,
          threads>>

TxTypes == {"Income", "Expense", "Fund Add", "Fund Balance"}

BlankRow == [uid |-> 0, date |-> 0, type |-> "", category |-> "", amount |-> 0,
             description |-> <<>>, person |-> "", month_start |-> <<>>]

NoAction == [type |-> "none", data |-> [none |-> TRUE], timestamp |-> 0]
NoList == [has |-> FALSE, items |-> <<>>]
SomeList(items) == [has |-> TRUE, items |-> items]

NoCall == [fn |-> "none", arg |-> <<>>, ret |-> <<>>]

Day(t) == t \div DAY_SECONDS

\* the sheet as the bot finds it when it starts: two loans to the same person
\* and this month's salary
InitLedger ==
    << [uid |-> 1, date |-> 0, type |-> "Expense", category |-> "Loan & Debt",
        amount |-> 50000, description |-> <<W("loan"), W("bob")>>, person |-> "Jacob",
        month_start |-> <<NowYear, NowMonth>>],
       [uid |-> 2, date |-> -1, type |-> "Expense", category |-> "Loan & Debt",
        amount |-> 70000, description |-> <<W("loan"), W("bob")>>, person |-> "Jacob",
        month_start |-> <<NowYear - 1, 12>>],
       [uid |-> 3, date |-> 0, type |-> "Income", category |-> "Income",
        amount |-> 3300004, description |-> <<W("salary")>>, person |-> "Jacob",
        month_start |-> <<NowYear, NowMonth>>] >>
FirstId == Len(InitLedger) + 1

\* ------------------------------------------------------------ the store
InSheet(L, row_index) == row_index - 1 \in 1..Len(L)

RECURSIVE Trim(_)
\* trailing blank rows are not part of the sheet's values
Trim(L) ==
    IF L # <<>> /\ L[Len(L)] = BlankRow THEN Trim(SubSeq(L, 1, Len(L) - 1)) ELSE L

row_values(L, row_index) == IF InSheet(L, row_index) THEN L[row_index - 1] ELSE BlankRow

delete_rows(L, row_index) ==
    IF InSheet(L, row_index) THEN Trim(RemoveAt(L, row_index - 1)) ELSE L

append_row(L, row) == IF row = BlankRow THEN L ELSE Append(L, row)

\* update_cell on one column; a row past the end comes into being, blank otherwise
Padded(L, row_index) ==
    L \o [i \in 1..(row_index - 1 - Len(L)) |-> BlankRow]

update_amount(L, row_index, v) ==
    Trim([Padded(L, row_index) EXCEPT ![row_index - 1].amount = v])

update_description(L, row_index, d) ==
    Trim([Padded(L, row_index) EXCEPT ![row_index - 1].description = d])

\* get_all_values: the number of rows of the sheet, header included
RowCount(L) == Len(L) + 1

\* ------------------------------------------------------ handler outcomes
\* what a handler leaves behind; a handler starts from Cur
Cur == [ledger |-> ledger, nextId |-> nextId, la |-> last_action,
        lists |-> last_list_results, debts |-> last_debt_list, shared |-> shared,
        reply |-> "none", raised |-> FALSE]

Raise(o) == [o EXCEPT !.raised = TRUE, !.reply = "none"]
Reply(o, r) == [o EXCEPT !.reply = r]

\* store_undo_action
store_undo_action(o, ch, action_type, data) ==
    [o EXCEPT !.la[ch] = [type |-> action_type, data |-> data, timestamp |-> now]]

\* the pending action is never dropped
clear_undo_action_keeps(o, ch) == o

clear_undo_action(o, ch) == [o EXCEPT !.la[ch] = NoAction]

\* the handler's outcome becomes the state
Effect(o, cmd, ch) ==
    /\ o.nextId <= FirstId + MaxId
    /\ ledger' = o.ledger
    /\ nextId' = o.nextId
    /\ last_action' = o.la
    /\ last_list_results' = o.lists
    /\ last_debt_list' = o.debts
    /\ shared' = o.shared
    /\ last' = [cmd |-> cmd, ch |-> ch, reply |-> o.reply, raised |-> o.raised]
    /\ pre' = ledger
    /\ UNCHANGED <<now, creds, threads>>

Commit(o, cmd, ch) == Effect(o, cmd, ch) /\ UNCHANGED call

\* a command whose message passed the duplicate filter with a new identifier
Finish(o, cmd, ch) ==
    /\ steps < MaxSteps
    /\ steps' = steps + 1
    /\ Commit(o, cmd, ch)
    /\ UNCHANGED <<processed_events, cut, dropped>>

\* ------------------------------------------- free-form transaction message
Texts ==
    { << W("loan"), W("bob"), <<"5", "0", "k">> >>,
      << W("dec"), W("lunch"), <<"1", "5", ",", "5", "k">> >>,
      << W("hello") >>,
      << <<"0">>, W("lunch") >>,
      << <<".", ".", ".">> >> }

\* messages with a token YYYY-M[M]: a month, a month past December, month zero
DatedTexts ==
    { << W("lunch"), <<"2", "0", "2", "4", "-", "1">>, <<"5", "0", "k">> >>,
      << W("lunch"), <<"2", "0", "2", "4", "-", "1", "3">>, <<"5", "0", "k">> >>,
      << <<"2", "0", "2", "4", "-", "0">>, W("lunch"), <<"5", "0", "k">> >> }

Senders == {"Jacob"}

Parsed ==
    [t \in Texts \cup DatedTexts, u \in Senders, h \in BOOLEAN |-> parse_transaction(t, u, h)]

\* log_transaction's row
TxRow(tx, id) ==
    [uid |-> id,
     date |-> IF tx.is_backdated THEN -1 ELSE Day(now),
     type |-> tx.type, category |-> tx.category, amount |-> tx.amount,
     description |-> tx.description, person |-> tx.person,
     month_start |-> <<tx.year, tx.month>>]

\* The fallback of slack_events: parse_transaction, check_duplicate_income,
\* log_transaction, store_undo_action, build_response.  Store calls, in order:
\* the fixed-bills read, the duplicate-income read (Income only), then
\* log_transaction's sheet handle, append_row and get_all_values, then the
\* budget read of build_response (an Expense that is no fixed bill and has a budget).
Ordinals(income, budgeted) ==
    [cBills |-> 1,
     cDup |-> IF income THEN 2 ELSE 0,
     cSheet |-> IF income THEN 3 ELSE 2,
     cAppend |-> IF income THEN 4 ELSE 3,
     cCount |-> IF income THEN 5 ELSE 4,
     cBudget |-> IF budgeted THEN 5 ELSE 0]

\* the months build_response has a name for
MONTH_NAMES_REVERSE == 1..12

\* build_response looks the month of a backdated transaction up by its number
HasMonthName(tx) == ~tx.is_backdated \/ tx.month \in MONTH_NAMES_REVERSE

Outcome(ch, c, named, appended, logged, fail) ==
    IF fail # 0 /\ fail \in {c.cBills, c.cDup, c.cSheet, c.cAppend} THEN Raise(Cur)
    ELSE IF fail # 0 /\ fail = c.cCount THEN Raise(appended)
    ELSE IF ~named THEN Raise(logged)
    ELSE IF fail # 0 /\ fail = c.cBudget THEN Raise(logged)
    ELSE Reply(logged, "ok")

Appended(row) == [Cur EXCEPT !.ledger = append_row(ledger, row), !.nextId = nextId + 1]

Logged(ch, row, appended) ==
    store_undo_action(appended, ch, "add",
                      [row_index |-> RowCount(appended.ledger), row_data |-> row])

LogRow(ch, c, named, row, appended, fail) ==
    Outcome(ch, c, named, appended, Logged(ch, row, appended), fail)

LogTx(ch, tx, fail) ==
    LogRow(ch,
           Ordinals(tx.type = "Income",
                    tx.type # "Income" /\ ~tx.fixed_bill /\ tx.category \in DEFAULT_BUDGETS),
           HasMonthName(tx), TxRow(tx, nextId), Appended(TxRow(tx, nextId)), fail)

HandleTx(ch, tx, fail) ==
    IF tx.kind = "raise" THEN Raise(Cur)
    ELSE IF tx.kind = "none" THEN Cur
    ELSE IF ~creds THEN Reply(Cur, "cannot_connect")
    ELSE LogTx(ch, tx, fail)

TransactionOut(ch, text, user_name, fail) == HandleTx(ch, Parsed[text, user_name, creds], fail)

Transaction(ch, text, user_name, fail) ==
    Finish(TransactionOut(ch, text, user_name, fail), "transaction", ch)

\* ------------------------------------------------------------- list, last
Entry(L, i) ==
    [row_index |-> i + 1, uid |-> L[i].uid, date |-> L[i].date, type |-> L[i].type,
     category |-> L[i].category, amount |-> L[i].amount,
     description |-> L[i].description, person |-> L[i].person, month |-> L[i].month_start]

\* sheet.get_all_records(), each record with its row index
Records(L) == [i \in DOMAIN L |-> Entry(L, i)]

get_all_transactions(L) == SelectSeq(Records(L), LAMBDA t : t.type \in TxTypes)

StartsPaid(description) == description # <<>> /\ Head(description) = W("[PAID]")

get_outstanding_loans(L) ==
    SelectSeq(Records(L), LAMBDA t :
        /\ t.type = "Expense" /\ t.category = "Loan & Debt"
        /\ ~StartsPaid(t.description) /\ ~is_repayment(t.description))

RECURSIVE SortByDateDesc(_)
\* sorted(..., key=date, reverse=True): stable, equal dates keep their order
SortByDateDesc(items) ==
    IF items = <<>> THEN <<>>
    ELSE LET top == CHOOSE d \in {items[i].date : i \in DOMAIN items} :
                        \A i \in DOMAIN items : items[i].date <= d
         IN  SelectSeq(items, LAMBDA t : t.date = top)
                 \o SortByDateDesc(SelectSeq(items, LAMBDA t : t.date # top))

Limits == {0, 1, 5}     \* no limit, `last 1`, and the default of `last`

\* the filters of a list command; the month is none, the current one or another one
NoFilter == [type |-> "", category |-> <<>>, person |-> "", month |-> "none", limit |-> 0]

\* the words of a category name, lower-cased
NameWords(category) ==
    CASE category = "Loan & Debt" -> {"loan", "debt"}
      [] category = "Food & Dining" -> {"food", "dining"}
      [] category = "Income" -> {"income"}
      [] OTHER -> {}

\* filter_category against one transaction
CategoryFits(t, word) ==
    IF word \in {W("debt"), W("loan"), <<"n", "ợ">>, W("mượn")} THEN t.category = "Loan & Debt"
    ELSE \/ Len(word) = 1 /\ word[1] \in NameWords(t.category)
         \/ \E i \in DOMAIN t.description : LowerTok(t.description[i]) = word

\* the four filters of filter_transactions; rows dated before today are of
\* another month
Fits(t, f) ==
    /\ f.type = "" \/ t.type = f.type
    /\ f.category = <<>> \/ CategoryFits(t, LowerTok(f.category))
    /\ f.person = "" \/ t.person = f.person
    /\ f.month = "none" \/ (f.month = "current") = (t.date >= 0)

Limited(sorted, limit) ==
    IF limit # 0 /\ limit < Len(sorted) THEN SubSeq(sorted, 1, limit) ELSE sorted

\* filter_transactions: the filters, the sort by date, the limit
FilterBy(items, f) ==
    Limited(SortByDateDesc(SelectSeq(items, LAMBDA t : Fits(t, f))), f.limit)

\* filter_transactions with the month filter of a bare `list` and a limit
filter_transactions(items, monthOnly, limit) ==
    FilterBy(items, [NoFilter EXCEPT !.month = IF monthOnly THEN "current" ELSE "none",
                                     !.limit = limit])

\* format_transaction_list: an empty list is not cached
Listed(ch, filtered, fail) ==
    IF creds /\ fail = 1 THEN Raise(Cur)
    ELSE IF ~creds \/ filtered = <<>> THEN Reply(Cur, "no_transactions")
    ELSE Reply([Cur EXCEPT !.lists[ch] = SomeList(filtered), !.shared[ch] = FALSE],
               "listed")

\* `list ...` and `last N`: one read of the sheet, then format_transaction_list
ListOut(ch, monthOnly, limit, fail) ==
    Listed(ch, filter_transactions(get_all_transactions(ledger), monthOnly, limit), fail)

List(ch, monthOnly, limit, fail) ==
    /\ monthOnly \/ limit # 0
    /\ Finish(ListOut(ch, monthOnly, limit, fail), "list", ch)

\* `list debt`: both caches get the one list of outstanding loans
ListDebtOut(ch, fail) ==
    LET loans == get_outstanding_loans(ledger)
    IN  IF creds /\ fail = 1 THEN Raise(Cur)
        ELSE IF ~creds \/ loans = <<>> THEN Reply(Cur, "no_loans")
        ELSE Reply([Cur EXCEPT !.lists[ch] = SomeList(loans),
                               !.debts[ch] = SomeList(loans),
                               !.shared[ch] = TRUE], "listed")

ListDebt(ch, fail) == Finish(ListDebtOut(ch, fail), "list_debt", ch)

\* ----------------------------------------------------------------- delete
\* the targets of parse_delete_targets, highest first
RECURSIVE Descending(_)
Descending(T) ==
    IF T = {} THEN <<>>
    ELSE LET m == CHOOSE x \in T : \A y \in T : y <= x
         IN  <<m>> \o Descending(T \ {m})

\* for item in list_results: if item['row_index'] > r: item['row_index'] -= 1
Reindexed(items, r) ==
    [i \in DOMAIN items |->
        IF items[i].row_index > r
        THEN [items[i] EXCEPT !.row_index = items[i].row_index - 1] ELSE items[i]]

RECURSIVE DeleteLoop(_, _, _, _)
\* the loop of delete_transactions from its k-th target on; store calls
\* 2k+1 (row_values) and 2k+2 (delete_rows); st = [ledger, items, rows, failed]
DeleteLoop(st, targets, k, fail) ==
    IF k > Len(targets) THEN st
    ELSE LET tx == st.items[targets[k]]
         IN  IF fail \in {2 * k + 1, 2 * k + 2} THEN [st EXCEPT !.failed = TRUE]
             ELSE DeleteLoop(
                     [ledger |-> delete_rows(st.ledger, tx.row_index),
                      items |-> Reindexed(st.items, tx.row_index),
                      rows |-> Append(st.rows, row_values(st.ledger, tx.row_index)),
                      failed |-> FALSE],
                     targets, k + 1, fail)

\* delete_transactions and the delete branch of slack_events.  The handler
\* unpacks four values; the early returns of delete_transactions give three.
DeleteCore(o, ch, targets, fail) ==
    LET items == o.lists[ch].items
        st == DeleteLoop([ledger |-> o.ledger, items |-> items, rows |-> <<>>,
                          failed |-> FALSE], targets, 1, fail)
        after == [o EXCEPT !.ledger = st.ledger,
                           !.lists[ch] = SomeList(st.items),
                           !.debts[ch] = IF o.shared[ch] THEN SomeList(st.items) ELSE @]
    IN  IF ~o.lists[ch].has THEN Raise(o)
        ELSE IF \E k \in DOMAIN targets : targets[k] < 1 \/ targets[k] > Len(items)
        THEN Raise(o)
        ELSE IF st.failed THEN Reply(after, "store_error")
        ELSE Reply(store_undo_action(after, ch, "delete", [rows |-> st.rows]), "ok")

DeleteOut(ch, T, fail) ==
    IF ~creds THEN Raise(Cur)
    ELSE IF fail \in {1, 2} THEN Raise(Cur)
    ELSE DeleteCore(Cur, ch, Descending(T), fail)

Delete(ch, T, fail) ==
    /\ T # {}
    /\ Finish(DeleteOut(ch, T, fail), "delete", ch)

\* `delete last [N]`: the cache is replaced by every transaction, newest date first
DeleteLastOut(ch, count, fail) ==
    LET sorted_tx == SortByDateDesc(get_all_transactions(ledger))
        n == IF count < Len(sorted_tx) THEN count ELSE Len(sorted_tx)
        o == [Cur EXCEPT !.lists[ch] = SomeList(sorted_tx), !.shared[ch] = FALSE]
    IN  IF ~creds THEN Raise(Cur)
        ELSE IF fail \in {1, 2} THEN Raise(Cur)
        ELSE DeleteCore(o, ch, [i \in 1..n |-> n + 1 - i], fail)

DeleteLast(ch, count, fail) ==
    /\ count >= 1
    /\ Finish(DeleteLastOut(ch, count, fail), "delete_last", ch)

\* ------------------------------------------------------------------- paid
RepayPrefix == W("nhận lại/trả nợ:")

\* list[i] for the Python index i = n - 1: a negative index counts from the end
PyIndex(items, n) == IF n >= 1 THEN items[n] ELSE items[Len(items) + n]

\* mark_loan_as_paid and the paid branch of slack_events.  Store calls: the
\* sheet handle, update_cell (inside try), append_row (outside any try).
PaidOut(ch, n, fail) ==
    LET items == last_debt_list[ch].items
        loan == PyIndex(items, n)
        original_desc == loan.description
        marked == [Cur EXCEPT !.ledger = update_description(ledger, loan.row_index,
                                             <<W("[PAID]")>> \o original_desc)]
        income_row == [uid |-> nextId, date |-> Day(now), type |-> "Income",
                       category |-> "Loan & Debt", amount |-> loan.amount,
                       description |-> <<RepayPrefix>> \o original_desc,
                       person |-> loan.person, month_start |-> <<NowYear, NowMonth>>]
        logged == [marked EXCEPT !.ledger = append_row(marked.ledger, income_row),
                                 !.nextId = nextId + 1]
    IN  IF ~last_debt_list[ch].has \/ n - 1 >= Len(items)
        THEN Reply(Cur, "use_list_first")
        ELSE IF items = <<>> THEN Raise(Cur)
        ELSE IF ~creds THEN Reply(Cur, "cannot_connect")
        ELSE IF fail = 1 THEN Raise(Cur)
        ELSE IF fail = 2 THEN Reply(Cur, "store_error")
        ELSE IF fail = 3 THEN Raise(marked)
        ELSE Reply(store_undo_action(logged, ch, "paid",
                       [loan_row_index |-> loan.row_index,
                        original_desc |-> original_desc,
                        income_row_data |-> income_row]), "ok")

Paid(ch, n, fail) == Finish(PaidOut(ch, n, fail), "paid", ch)

\* undo_paid: restore the description, then delete the first Income row of
\* Loan & Debt whose description holds the repayment text.  Store calls: the
\* sheet handle, update_cell, get_all_records, delete_rows (the last three in try).
undo_paid(o, ch, data, fail) ==
    LET restored == [o EXCEPT !.ledger = update_description(o.ledger,
                                             data.loan_row_index, data.original_desc)]
        L == restored.ledger
        hits == {i \in DOMAIN L :
                    /\ L[i].type = "Income" /\ L[i].category = "Loan & Debt"
                    /\ Infix(<<RepayPrefix>> \o data.original_desc, L[i].description)}
        first == CHOOSE i \in hits : \A j \in hits : i <= j
        removed == IF hits = {} THEN restored
                   ELSE [restored EXCEPT !.ledger = delete_rows(L, first + 1)]
    IN  IF ~creds THEN Reply(o, "cannot_connect")
        ELSE IF fail = 1 THEN Raise(o)
        ELSE IF fail = 2 THEN Reply(o, "store_error")
        ELSE IF fail = 3 \/ (fail = 4 /\ hits # {}) THEN Reply(restored, "store_error")
        ELSE Reply(clear_undo_action(removed, ch), "ok")

\* ------------------------------------------------------------------- edit
EditAmounts == { <<"9", "0", "K">>, <<"0">>, W("abc"), <<"1", ".", "2", ".", "3">> }

\* edit_transaction and the edit branch of slack_events.  Store calls: the
\* sheet handle, then in try: cell, update_cell; int(float(old_value)) comes
\* after the write and fails on an empty cell.
EditOut(ch, n, tok, fail) ==
    LET items == last_list_results[ch].items
        tx == PyIndex(items, n)
        new_amount == parse_amount(tok)
        old_value == row_values(ledger, tx.row_index).amount
        written == [Cur EXCEPT !.ledger = update_amount(ledger, tx.row_index, new_amount.v)]
    IN  IF ~last_list_results[ch].has \/ n - 1 >= Len(items)
        THEN Reply(Cur, "use_list_first")
        ELSE IF items = <<>> THEN Raise(Cur)
        ELSE IF new_amount.kind = "raise" THEN Raise(Cur)
        ELSE IF ~Truthy(new_amount) THEN Reply(Cur, "invalid_amount")
        ELSE IF ~creds THEN Reply(Cur, "cannot_connect")
        ELSE IF fail = 1 THEN Raise(Cur)
        ELSE IF fail \in {2, 3} THEN Reply(Cur, "store_error")
        ELSE IF old_value = 0 THEN Reply(written, "store_error")
        ELSE Reply(store_undo_action(written, ch, "edit",
                       [row_index |-> tx.row_index, old_amount |-> old_value,
                        new_amount |-> new_amount.v]), "ok")

Edit(ch, n, tok, fail) == Finish(EditOut(ch, n, tok, fail), "edit", ch)

undo_edit(o, ch, data, fail) ==
    IF ~creds THEN Reply(o, "cannot_connect")
    ELSE IF fail = 1 THEN Raise(o)
    ELSE IF fail = 2 THEN Reply(o, "store_error")
    ELSE Reply(clear_undo_action(
                   [o EXCEPT !.ledger = update_amount(o.ledger, data.row_index,
                                                       data.old_amount)], ch), "ok")

\* ----------------------------------------------------------- status, help
\* status: three reads of the sheet, none inside a try
StatusOut(ch, fail) ==
    IF ~creds THEN Reply(Cur, "cannot_fetch")
    ELSE IF fail \in 1..3 THEN Raise(Cur)
    ELSE Reply(Cur, "status")

Status(ch, fail) == Finish(StatusOut(ch, fail), "status", ch)

Help(ch) == Finish(Reply(Cur, "help"), "help", ch)

\* ------------------------------------------------------------------- undo
\* (datetime.now() - action['timestamp']).seconds
Seconds(delta) == delta % DAY_SECONDS

get_undo_action(ch) ==
    IF last_action[ch].type = "none" THEN "nothing_to_undo"
    ELSE IF Seconds(now - last_action[ch].timestamp) > UNDO_TTL THEN "expired"
    ELSE "action"

\* only the first deleted row is put back
AppendLoop_first_only(st, rows, k, fail) ==
    IF rows = <<>> THEN st ELSE [st EXCEPT !.ledger = append_row(st.ledger, rows[1])]

RECURSIVE AppendLoop(_, _, _, _)
\* the loop of undo_delete from its k-th row on; store call k + 1
AppendLoop(st, rows, k, fail) ==
    IF k > Len(rows) THEN st
    ELSE IF fail = k + 1 THEN [st EXCEPT !.failed = TRUE]
    ELSE AppendLoop([ledger |-> append_row(st.ledger, rows[k]), failed |-> FALSE],
                    rows, k + 1, fail)

undo_delete(o, ch, data, fail) ==
    LET st == AppendLoop([ledger |-> o.ledger, failed |-> FALSE], data.rows, 1, fail)
        after == [o EXCEPT !.ledger = st.ledger]
    IN  IF ~creds THEN Reply(o, "cannot_connect")
        ELSE IF fail = 1 THEN Raise(o)
        ELSE IF st.failed THEN Reply(after, "store_error")
        ELSE Reply(clear_undo_action(after, ch), "ok")

\* delete_row_by_index(data['row_index'])
undo_add(o, ch, data, fail) ==
    IF ~creds THEN Reply(o, "cannot_connect")
    ELSE IF fail = 1 THEN Raise(o)
    ELSE IF fail \in {2, 3} THEN Reply(o, "store_error")
    ELSE Reply(clear_undo_action(
                   [o EXCEPT !.ledger = delete_rows(o.ledger, data.row_index)], ch), "ok")

\* perform_undo, fund_update: the row of the update is deleted.  Store calls:
\* the sheet handle, then delete_rows or update_cell inside try.
undo_fund_update(o, ch, data, fail) ==
    IF ~creds THEN Reply(o, "cannot_connect")
    ELSE IF fail = 1 THEN Raise(o)
    ELSE IF fail = 2 THEN Reply(o, "store_error")
    ELSE Reply(clear_undo_action(
                   [o EXCEPT !.ledger = IF data.was_new
                                        THEN delete_rows(o.ledger, data.row_index)
                                        ELSE update_amount(o.ledger, data.row_index,
                                                           data.old_amount)], ch), "ok")

\* the recorded rows are deleted as they were appended, lowest row index first
ByRowIndexAsc(rows) == rows

\* sorted(data['rows'], key=row_index, reverse=True) on rows recorded in rising order
ByRowIndexDesc(rows) == [i \in DOMAIN rows |-> rows[Len(rows) + 1 - i]]

RECURSIVE UnapplyLoop(_, _, _, _)
\* the loop of the fund_apply undo from its k-th row on; store call k + 1
UnapplyLoop(st, rows, k, fail) ==
    IF k > Len(rows) THEN st
    ELSE IF fail = k + 1 THEN [st EXCEPT !.failed = TRUE]
    ELSE UnapplyLoop([ledger |-> delete_rows(st.ledger, rows[k].row_index),
                      failed |-> FALSE], rows, k + 1, fail)

\* perform_undo, fund_apply: every row the allocation appended is deleted
undo_fund_apply(o, ch, data, fail) ==
    LET st == UnapplyLoop([ledger |-> o.ledger, failed |-> FALSE],
                          ByRowIndexDesc(data.rows), 1, fail)
        after == [o EXCEPT !.ledger = st.ledger]
    IN  IF ~creds THEN Reply(o, "cannot_connect")
        ELSE IF fail = 1 THEN Raise(o)
        ELSE IF st.failed THEN Reply(after, "store_error")
        ELSE Reply(clear_undo_action(after, ch), "ok")

UndoOut(ch, fail) ==
    LET got == get_undo_action(ch)
        action_type == last_action[ch].type
        data == last_action[ch].data
    IN  IF got # "action" THEN Reply(Cur, got)
        ELSE CASE action_type = "delete" -> undo_delete(Cur, ch, data, fail)
               [] action_type = "add" -> undo_add(Cur, ch, data, fail)
               [] action_type = "edit" -> undo_edit(Cur, ch, data, fail)
               [] action_type = "paid" -> undo_paid(Cur, ch, data, fail)
               [] action_type = "fund_update" -> undo_fund_update(Cur, ch, data, fail)
               [] action_type = "fund_apply" -> undo_fund_apply(Cur, ch, data, fail)
               [] OTHER -> Reply(Cur, "unknown_action")

Undo(ch, fail) == Finish(UndoOut(ch, fail), "undo", ch)

\* ------------------------------------------------- duplicate event filter
\* processed_events is kept as whether it holds the watched identifier and
\* how many other identifiers it holds.
Size(p) == p.others + (IF p.watched THEN 1 ELSE 0)

Inserted(p, watched) ==
    IF watched THEN [p EXCEPT !.watched = TRUE] ELSE [p EXCEPT !.others = @ + 1]

\* set(list(processed_events)[-50:]): fifty members in the set's own order,
\* so the watched identifier stays (keep) or goes
Truncated(p, keep) ==
    IF Size(p) <= MAX_PROCESSED_EVENTS THEN p
    ELSE IF p.watched /\ keep THEN [watched |-> TRUE, others |-> KEPT_EVENTS - 1]
    ELSE [watched |-> FALSE, others |-> KEPT_EVENTS]

\* the identifier is never remembered
is_duplicate_event_forgets(p, watched, keep) == [duplicate |-> FALSE, seen |-> p]

\* is_duplicate_event on an identifier that is the watched one or a new other one
is_duplicate_event(p, watched, keep) ==
    IF watched /\ p.watched THEN [duplicate |-> TRUE, seen |-> p]
    ELSE [duplicate |-> FALSE, seen |-> Truncated(Inserted(p, watched), keep)]

WatchedText == << W("loan"), W("bob"), <<"5", "0", "k">> >>
OtherText == << W("hello") >>

\* slack_events on a message: the filter, then the handler of its text
DeliverOf(ch, text, watched, keep) ==
    LET r == is_duplicate_event(processed_events, watched, keep)
    IN  /\ processed_events' = r.seen
        /\ cut' = (cut \/ (Inserted(processed_events, watched).watched
                             /\ Size(Inserted(processed_events, watched))
                                    > MAX_PROCESSED_EVENTS))
        /\ dropped' = (dropped \/ r.duplicate)
        /\ steps' = steps
        /\ IF r.duplicate
           THEN UNCHANGED <<ledger, nextId, last_action, last_list_results,
                            last_debt_list, shared, now, creds, last, pre, call, threads>>
           ELSE Commit(TransactionOut(ch, text, "Jacob", 0), "transaction", ch)

\* the watched message is a loan, the others are small talk
Deliver(ch, watched, keep) ==
    DeliverOf(ch, IF watched THEN WatchedText ELSE OtherText, watched, keep)

\* a message whose handling ends in an exception: float('...') in parse_amount
RaisingText == << <<".", ".", ".">> >>

\* ------------------------------------------------------ request threads
\* The server handles each request on a thread of its own.  A thread runs a
\* free-form request statement by statement: the membership test and the
\* insertion of is_duplicate_event, then parse_transaction and log_transaction
\* up to append_row, then get_all_values, then store_undo_action and the reply.
Threads == {"t1", "t2"}

IdleThread ==
    [pc |-> "idle", ch |-> "c1", watched |-> FALSE, text |-> <<>>, row |-> BlankRow,
     row_index |-> 0]

\* the message with another identifier is a transaction as well
LunchText == << W("dec"), W("lunch"), <<"1", "5", ",", "5", "k">> >>

\* what a step of a thread leaves alone besides what it names
ThreadStep(t, th) ==
    /\ threads' = [threads EXCEPT ![t] = th]
    /\ UNCHANGED <<last_list_results, last_debt_list, shared, now, creds, call>>

\* a request comes in: the watched message or another one
Receive(t, ch, watched) ==
    /\ threads[t].pc = "idle"
    /\ steps < MaxSteps
    /\ steps' = steps + 1
    /\ ThreadStep(t, [IdleThread EXCEPT !.pc = "test", !.ch = ch, !.watched = watched,
                                        !.text = IF watched THEN WatchedText ELSE LunchText])
    /\ UNCHANGED <<ledger, nextId, last_action, last, pre, processed_events, cut, dropped>>

\* is_duplicate_event: if event_id in processed_events: return True
TestSeen(t) ==
    /\ threads[t].pc = "test"
    /\ dropped' = (dropped \/ (threads[t].watched /\ processed_events.watched))
    /\ ThreadStep(t, IF threads[t].watched /\ processed_events.watched THEN IdleThread
                     ELSE [threads[t] EXCEPT !.pc = "add"])
    /\ UNCHANGED <<ledger, nextId, last_action, last, pre, processed_events, cut, steps>>

\* is_duplicate_event: processed_events.add(event_id), and the cut to fifty
AddSeen(t, keep) ==
    /\ threads[t].pc = "add"
    /\ processed_events' = Truncated(Inserted(processed_events, threads[t].watched), keep)
    /\ cut' = (cut \/ (Inserted(processed_events, threads[t].watched).watched
                         /\ Size(Inserted(processed_events, threads[t].watched))
                                > MAX_PROCESSED_EVENTS))
    /\ ThreadStep(t, [threads[t] EXCEPT !.pc = "log"])
    /\ UNCHANGED <<ledger, nextId, last_action, last, pre, dropped, steps>>

\* the request of a thread ends here, with this reply
Ended(t, reply, raised) ==
    /\ last' = [cmd |-> "transaction", ch |-> threads[t].ch, reply |-> reply,
                raised |-> raised]
    /\ ThreadStep(t, IdleThread)

\* parse_transaction, then log_transaction as far as sheet.append_row
LogStep(t, tx) ==
    /\ threads[t].pc = "log"
    /\ pre' = ledger
    /\ IF tx.kind # "tx" \/ ~creds
       THEN /\ Ended(t, IF tx.kind = "tx" THEN "cannot_connect" ELSE "none",
                     tx.kind = "raise")
            /\ UNCHANGED <<ledger, nextId>>
       ELSE /\ nextId + 1 <= FirstId + MaxId
            /\ ledger' = append_row(ledger, TxRow(tx, nextId))
            /\ nextId' = nextId + 1
            /\ ThreadStep(t, [threads[t] EXCEPT !.pc = "count", !.row = TxRow(tx, nextId)])
            /\ UNCHANGED last
    /\ UNCHANGED <<last_action, processed_events, cut, dropped, steps>>

Log(t) == LogStep(t, Parsed[threads[t].text, "Jacob", creds])

\* log_transaction: new_row_index = len(sheet.get_all_values())
CountRows(t) ==
    /\ threads[t].pc = "count"
    /\ ThreadStep(t, [threads[t] EXCEPT !.pc = "store", !.row_index = RowCount(ledger)])
    /\ UNCHANGED <<ledger, nextId, last_action, last, pre, processed_events, cut, dropped,
                   steps>>

\* store_undo_action(channel, 'add', add_data), build_response and the reply
StoreUndo(t) ==
    /\ threads[t].pc = "store"
    /\ last_action' =
           store_undo_action(Cur, threads[t].ch, "add",
                             [row_index |-> threads[t].row_index,
                              row_data |-> threads[t].row]).la
    /\ Ended(t, IF HasMonthName(Parsed[threads[t].text, "Jacob", creds]) THEN "ok" ELSE "none",
             ~HasMonthName(Parsed[threads[t].text, "Jacob", creds]))
    /\ UNCHANGED <<ledger, nextId, pre, processed_events, cut, dropped, steps>>

\* ------------------------------------------------------- command router
\* str.isdigit() on a token
IsDigit(tok) == tok # <<>> /\ AllIn(tok, Digits)

\* the command prefix a word atom begins with, "" when it begins with none
PrefixOf(sym) ==
    CASE sym = "paid" -> "paid"
      [] sym \in {"list", "listen"} -> "list"
      [] sym = "last" -> "last"
      [] sym = "delete" -> "delete"
      [] sym = "edit" -> "edit"
      [] OTHER -> ""

\* text_lower.startswith(prefix)
StartsWith(low, prefix) == low # <<>> /\ low[1] # <<>> /\ PrefixOf(low[1][1]) = prefix

\* the word nợ as its code points: composed (U+1EE3), and decomposed
Composed == <<"n", "ợ">>
Decomposed == <<"n", "o", "U+031B", "U+0323">>

STATUS_WORDS == { <<W("status")>>, <<W("check")>> }
DEBT_LIST_WORDS ==
    { <<W("list"), W("debt")>>, <<W("list"), W("loan")>>, <<W("list"), Composed>>,
      <<W("debt")>>, <<W("loan")>> }
HELP_WORDS == { <<W("help")>>, <<W("?")>> }

\* the general list is tested before the debt list
dispatch_list_first(low) ==
    IF low \in STATUS_WORDS THEN "status"
    ELSE IF StartsWith(low, "paid") THEN "paid"
    ELSE IF StartsWith(low, "list") \/ StartsWith(low, "last") THEN "list"
    ELSE IF low \in DEBT_LIST_WORDS THEN "list_debt"
    ELSE IF StartsWith(low, "delete") THEN "delete"
    ELSE IF StartsWith(low, "edit") THEN "edit"
    ELSE IF low = <<W("undo")>> THEN "undo"
    ELSE IF low \in HELP_WORDS THEN "help"
    ELSE "transaction"

\* the if / elif chain of slack_events on text_lower: the branch that runs
dispatch(low) ==
    IF low \in STATUS_WORDS THEN "status"
    ELSE IF low \in DEBT_LIST_WORDS THEN "list_debt"
    ELSE IF StartsWith(low, "paid") THEN "paid"
    ELSE IF StartsWith(low, "list") \/ StartsWith(low, "last") THEN "list"
    ELSE IF StartsWith(low, "delete") THEN "delete"
    ELSE IF StartsWith(low, "edit") THEN "edit"
    ELSE IF low = <<W("undo")>> THEN "undo"
    ELSE IF low \in HELP_WORDS THEN "help"
    ELSE "transaction"

\* the paid branch: the second word has to be a number
PaidRouted(ch, low, fail) ==
    IF Len(low) < 2 \/ ~IsDigit(low[2]) THEN Reply(Cur, "usage")
    ELSE PaidOut(ch, DigitsVal(low[2]), fail)

RECURSIVE ListWords(_, _)
\* the loop of parse_list_command over the words after the first
ListWords(words, f) ==
    IF words = <<>> THEN f
    ELSE ListWords(Tail(words),
             IF IsDigit(Head(words)) THEN [f EXCEPT !.limit = DigitsVal(Head(words))]
             ELSE IF MonthNamed(Head(words)).found
             THEN [f EXCEPT !.month = IF MonthNamed(Head(words)).month = NowMonth
                                      THEN "current" ELSE "other"]
             ELSE IF Head(words) \in {W("income"), W("expense")}
             THEN [f EXCEPT !.type = IF Head(words) = W("income") THEN "Income"
                                     ELSE "Expense"]
             ELSE IF IsPerson(Head(words)) THEN [f EXCEPT !.person = Capitalize(Head(words)[1])]
             ELSE [f EXCEPT !.category = Head(words)])

\* no month, no category and no limit: the current month
Defaulted(f) ==
    IF f.month = "none" /\ f.category = <<>> /\ f.limit = 0
    THEN [f EXCEPT !.month = "current"] ELSE f

parse_list_command(low) == Defaulted(ListWords(Tail(low), NoFilter))

\* the list branch: `last [N]` or the filters of parse_list_command
ListRouted(ch, low, fail) ==
    Listed(ch,
           FilterBy(get_all_transactions(ledger),
                    IF StartsWith(low, "last")
                    THEN [NoFilter EXCEPT !.limit = IF Len(low) > 1 /\ IsDigit(low[2])
                                                    THEN DigitsVal(low[2]) ELSE 5]
                    ELSE parse_list_command(low)),
           fail)

RECURSIVE Joined(_)
\* the symbols of the words, the blanks between them taken out
Joined(words) == IF words = <<>> THEN <<>> ELSE Head(words) \o Joined(Tail(words))

RECURSIVE SplitOn(_, _, _)
\* str.split(sep): the parts of s between the separators, part being the one read so far
SplitOn(s, sep, part) ==
    IF s = <<>> THEN <<part>>
    ELSE IF Head(s) = sep THEN <<part>> \o SplitOn(Tail(s), sep, <<>>)
    ELSE SplitOn(Tail(s), sep, Append(part, Head(s)))

\* one part of the target list: a range a-b, a number, or nothing
PartTargets(part, range_parts) ==
    IF Count(part, "-") > 0 /\ part[1] # "-"
    THEN IF Len(range_parts) = 2 /\ IsDigit(range_parts[1]) /\ IsDigit(range_parts[2])
         THEN DigitsVal(range_parts[1])..DigitsVal(range_parts[2]) ELSE {}
    ELSE IF IsDigit(part) THEN {DigitsVal(part)}
    ELSE {}

TargetsOf(parts) ==
    UNION { PartTargets(parts[i], SplitOn(parts[i], "-", <<>>)) : i \in DOMAIN parts }

\* parse_delete_targets: `last [N]`, or the set of the listed numbers
parse_delete_targets(target) ==
    IF StartsWith(target, "last")
    THEN [last |-> TRUE, targets |-> {},
          count |-> IF Len(target) > 1 /\ IsDigit(target[2]) THEN DigitsVal(target[2]) ELSE 1]
    ELSE [last |-> FALSE, targets |-> TargetsOf(SplitOn(Joined(target), ",", <<>>)),
          count |-> 0]

DeleteTargeted(ch, t, fail) ==
    IF t.last THEN DeleteLastOut(ch, t.count, fail)
    ELSE IF t.targets = {} THEN Reply(Cur, "invalid_format")
    ELSE DeleteOut(ch, t.targets, fail)

\* the delete branch: the text without the word delete names the targets
DeleteRouted(ch, low, fail) ==
    IF SelectSeq(low, LAMBDA t : t # W("delete")) = <<>> THEN Reply(Cur, "usage")
    ELSE DeleteTargeted(ch, parse_delete_targets(SelectSeq(low, LAMBDA t : t # W("delete"))),
                        fail)

\* the edit branch: three words, the second a number
EditRouted(ch, text, fail) ==
    IF Len(text) < 3 \/ ~IsDigit(text[2]) THEN Reply(Cur, "usage")
    ELSE EditOut(ch, DigitsVal(text[2]), text[3], fail)

\* the branch of slack_events that dispatch selects
Routed(ch, text, user_name, fail, branch) ==
    CASE branch = "status" -> StatusOut(ch, fail)
      [] branch = "list_debt" -> ListDebtOut(ch, fail)
      [] branch = "paid" -> PaidRouted(ch, Lower(text), fail)
      [] branch = "list" -> ListRouted(ch, Lower(text), fail)
      [] branch = "delete" -> DeleteRouted(ch, Lower(text), fail)
      [] branch = "edit" -> EditRouted(ch, text, fail)
      [] branch = "undo" -> UndoOut(ch, fail)
      [] branch = "help" -> Reply(Cur, "help")
      [] OTHER -> HandleTx(ch, parse_transaction(text, user_name, creds), fail)

\* slack_events on a message with a new identifier: dispatch, then the branch
Message(ch, text, user_name, fail) ==
    /\ steps < MaxSteps
    /\ steps' = steps + 1
    /\ Effect(Routed(ch, text, user_name, fail, dispatch(Lower(text))),
              dispatch(Lower(text)), ch)
    /\ call' = [fn |-> "slack_events", arg |-> text, ret |-> dispatch(Lower(text))]
    /\ UNCHANGED <<processed_events, cut, dropped>>

\* ------------------------------------------------------------------ funds
FIXED_EXPENSES == 3300000

\* the sum of the Amount column over rows
SumOf(rows) == SeqSum([i \in DOMAIN rows |-> rows[i].amount])

\* the rows of the current month
ThisMonth(L) == SelectSeq(L, LAMBDA r : r.date >= 0)

\* net_pool of the fund calculator: income less the fixed, business and joint expenses
NetPool(L) ==
    SumOf(SelectSeq(ThisMonth(L), LAMBDA r : r.type = "Income"))
        - FIXED_EXPENSES
        - SumOf(SelectSeq(ThisMonth(L),
                          LAMBDA r : r.type = "Expense" /\ r.category = "Business"))
        - SumOf(SelectSeq(ThisMonth(L), LAMBDA r : r.type = "Expense" /\ r.person = "Joint"))

\* d.m * n for a machine integer n >= 0, by its two halves
Product(d, n) ==
    BNorm(BAdd(BMul(BMul(d.m, n \div Limb, 0), Limb, 0), BMul(d.m, n % Limb, 0), 0))

\* the literals 0.40, 0.30, 0.20 and 0.10 as doubles
Fraction == [pct \in {10, 20, 30, 40} |-> ToDouble(pct, 2)]

TwoTo53 == TwoPow(53)

\* int(n * 0.pct) for n > 0: the double n times the double nearest to pct / 100
ShareOf(n, pct) ==
    IntOf(RoundTo53(Product(Fraction[pct], n), Fraction[pct].k, FALSE, FALSE, TwoTo53))

\* int(net_pool * 0.40) and the like; int() rounds towards zero
Share(net_pool, pct) ==
    IF net_pool = 0 THEN 0
    ELSE IF net_pool < 0 THEN 0 - ShareOf(0 - net_pool, pct)
    ELSE ShareOf(net_pool, pct)

\* the suggested allocation, 40/30/20/10
Allocation(L) ==
    [emergency |-> Share(NetPool(L), 40), investment |-> Share(NetPool(L), 30),
     planning |-> Share(NetPool(L), 20), date |-> Share(NetPool(L), 10)]

\* `fund`: the calculator.  Store calls: the sheet handle and get_all_records,
\* outside any try.  The suggestion is kept as the channel's last action.
FundOut(ch, fail) ==
    IF ~creds THEN Reply(Cur, "cannot_connect")
    ELSE IF fail \in {1, 2} THEN Raise(Cur)
    ELSE Reply(store_undo_action(Cur, ch, "fund_calc", Allocation(ledger)), "fund")

Fund(ch, fail) == Finish(FundOut(ch, fail), "fund", ch)

FundRow(name, amount, id, description) ==
    [uid |-> id, date |-> Day(now), type |-> IF description = "Update" THEN "Fund Balance"
                                             ELSE "Fund Add",
     category |-> name, amount |-> amount, description |-> <<W(description), W(name)>>,
     person |-> "Joint", month_start |-> <<NowYear, NowMonth>>]

\* fund_allocations, the funds with an amount above zero
Positive(alloc) ==
    SelectSeq(<< [name |-> "Emergency Fund", amount |-> alloc.emergency],
                 [name |-> "Investment Fund", amount |-> alloc.investment],
                 [name |-> "Planning Fund", amount |-> alloc.planning],
                 [name |-> "Date Fund", amount |-> alloc.date] >>,
              LAMBDA f : f.amount > 0)

RECURSIVE ApplyLoop(_, _, _, _)
\* the loop of fund apply from its k-th fund on; store calls 2k + 2
\* (append_row) and 2k + 3 (get_all_values); st = [ledger, nextId, rows, failed]
ApplyLoop(st, funds, k, fail) ==
    IF k > Len(funds) THEN st
    ELSE IF fail = 2 * k + 2 THEN [st EXCEPT !.failed = TRUE]
    ELSE IF fail = 2 * k + 3
    THEN [st EXCEPT !.failed = TRUE, !.nextId = @ + 1,
                    !.ledger = append_row(@, FundRow(funds[k].name, funds[k].amount,
                                                     st.nextId, "Monthly allocation"))]
    ELSE ApplyLoop(
            [ledger |-> append_row(st.ledger, FundRow(funds[k].name, funds[k].amount,
                                                      st.nextId, "Monthly allocation")),
             nextId |-> st.nextId + 1,
             rows |-> Append(st.rows, [row_index |-> RowCount(st.ledger) + 1,
                                       fund_name |-> funds[k].name,
                                       amount |-> funds[k].amount]),
             failed |-> FALSE],
            funds, k + 1, fail)

\* fund apply once the amounts are known: the check for negative amounts,
\* get_fund_status (store calls 2 and 3), the loop, store_undo_action, and
\* get_fund_status again; no store call is inside a try
Applied(ch, alloc, st, fail) ==
    IF alloc.emergency < 0 \/ alloc.investment < 0 \/ alloc.planning < 0 \/ alloc.date < 0
    THEN Reply(Cur, "negative")
    ELSE IF fail \in {2, 3} THEN Raise(Cur)
    ELSE IF st.failed THEN Raise([Cur EXCEPT !.ledger = st.ledger, !.nextId = st.nextId])
    ELSE IF fail # 0 /\ fail \in {2 * Len(st.rows) + 4, 2 * Len(st.rows) + 5}
    THEN Raise(store_undo_action([Cur EXCEPT !.ledger = st.ledger, !.nextId = st.nextId],
                                 ch, "fund_apply", [rows |-> st.rows]))
    ELSE Reply(store_undo_action([Cur EXCEPT !.ledger = st.ledger, !.nextId = st.nextId],
                                 ch, "fund_apply", [rows |-> st.rows]), "ok")

Allocated(ch, alloc, fail) ==
    Applied(ch, alloc,
            ApplyLoop([ledger |-> ledger, nextId |-> nextId, rows |-> <<>>, failed |-> FALSE],
                      Positive(alloc), 1, fail),
            fail)

\* amounts_text.replace(',', ' ').split(): the words cut at their commas
AmountParts(words) ==
    SelectSeq(Joined([i \in DOMAIN words |-> SplitOn(words[i], ",", <<>>)]),
              LAMBDA part : part # <<>>)

\* the amounts typed after `fund apply`, or the suggestion of the last `fund`
Chosen(ch, custom, fail) ==
    IF Len(custom) = 4
    THEN Allocated(ch, [emergency |-> custom[1].v, investment |-> custom[2].v,
                        planning |-> custom[3].v, date |-> custom[4].v], fail)
    ELSE IF get_undo_action(ch) # "action" \/ last_action[ch].type # "fund_calc"
    THEN Reply(Cur, "run_fund_first")
    ELSE Allocated(ch, last_action[ch].data, fail)

\* the words typed after `fund apply`: none, three amounts and a zero, a
\* malformed number, and four amounts, two of them joined by a comma
ApplyWords ==
    { <<>>,
      << <<"1", "k">>, <<"1", "k">>, <<"1", "k">>, <<"0">> >>,
      << <<"1", ".", "2", ".", "3">> >>,
      << <<"1", "k", ",", "1", "k">>, <<"1", "k">>, <<"1", "k">> >> }

\* parse_amount on each part of the words
ApplyAmounts == [words \in ApplyWords |-> ParsedWords(AmountParts(Lower(words)))]

\* `fund apply [amounts]`; words are the words after the command
FundApplyOut(ch, words, fail) ==
    IF ~creds THEN Reply(Cur, "cannot_connect")
    ELSE IF fail = 1 THEN Raise(Cur)
    ELSE IF \E i \in DOMAIN ApplyAmounts[words] : ApplyAmounts[words][i].kind = "raise"
    THEN Raise(Cur)
    ELSE Chosen(ch, SelectSeq(ApplyAmounts[words], Truthy), fail)

FundApply(ch, words, fail) == Finish(FundApplyOut(ch, words, fail), "fund_apply", ch)

\* fund_keywords in their declared order, the English ones
FUND_KEYWORDS ==
    << [key |-> "emergency", name |-> "Emergency Fund"],
       [key |-> "investment", name |-> "Investment Fund"],
       [key |-> "planning", name |-> "Planning Fund"],
       [key |-> "date", name |-> "Date Fund"] >>

\* the first keyword that is a substring of the text, 0 when none is
FundNamed(low) ==
    FirstOf({i \in DOMAIN FUND_KEYWORDS : TextHas(low, {FUND_KEYWORDS[i].key})})

\* get_fund_status: the amount of the fund's Fund Balance row of the latest
\* date, the first of them; 0 when the fund has none
OldBalance(L, name) ==
    LET rows == SelectSeq(L, LAMBDA r : r.type = "Fund Balance" /\ r.category = name)
    IN  IF rows = <<>> THEN 0 ELSE SortByDateDesc(rows)[1].amount

\* `update fund <fund> <amount>`.  get_fund_status comes first and gives None
\* without credentials; store calls: its sheet handle and get_all_records,
\* then the sheet handle, append_row and get_all_values, none inside a try.
Updated(ch, name, got, fail) ==
    IF got.kind = "raise" THEN Raise(Cur)
    ELSE IF got.kind = "none" THEN Reply(Cur, "missing_amount")
    ELSE IF ~creds THEN Raise(Cur)
    ELSE IF fail \in 1..4 THEN Raise(Cur)
    ELSE IF fail = 5 THEN Raise(Appended(FundRow(name, got.amount, nextId, "Update")))
    ELSE Reply(store_undo_action(Appended(FundRow(name, got.amount, nextId, "Update")),
                   ch, "fund_update",
                   [row_index |-> RowCount(ledger) + 1, old_amount |-> OldBalance(ledger, name),
                    fund_name |-> name, was_new |-> TRUE]), "ok")

UpdateTexts ==
    { << W("update"), W("fund"), W("emergency"), <<"8", ".", "7", "M">> >>,
      << W("update"), W("fund"), <<"5", "k">> >>,
      << W("update"), W("fund"), W("emergency") >> }

\* extract_amount_from_text on the text of the command
UpdateAmounts == [text \in UpdateTexts |-> extract_amount_from_text(text)]

UpdateFundOut(ch, text, fail) ==
    IF FundNamed(Lower(text)) = 0 THEN Reply(Cur, "usage")
    ELSE Updated(ch, FUND_KEYWORDS[FundNamed(Lower(text))].name, UpdateAmounts[text], fail)

UpdateFund(ch, text, fail) == Finish(UpdateFundOut(ch, text, fail), "update_fund", ch)

\* ------------------------------------------------------------------ time
Tick(t) ==
    /\ t > now
    /\ now' = t
    /\ UNCHANGED <<ledger, nextId, last_action, last_list_results, last_debt_list,
                   shared, creds, last, pre, steps, processed_events, cut, dropped,
                   call, threads>>

\* ------------------------------------------------------------------ spec
\* the bot after start-up, before any message, serving the channels C
StartedOn(C) ==
    /\ ledger = InitLedger
    /\ nextId = FirstId
    /\ last_action = [c \in C |-> NoAction]
    /\ last_list_results = [c \in C |-> NoList]
    /\ last_debt_list = [c \in C |-> NoList]
    /\ shared = [c \in C |-> FALSE]
    /\ now = 0
    /\ creds \in BOOLEAN
    /\ last = [cmd |-> "start", ch |-> "c1", reply |-> "none", raised |-> FALSE]
    /\ pre = InitLedger
    /\ steps = 0
    /\ processed_events = [watched |-> FALSE, others |-> 0]
    /\ cut = FALSE
    /\ dropped = FALSE
    /\ threads = [t \in Threads |-> IdleThread]

Started == StartedOn(Channels)

Init == Started /\ call = NoCall

\* one disjunct per modelled command of slack_events, and the clock
Next ==
    \/ \E ch \in Channels, text \in Texts, u \in Senders, f \in 0..MaxFail :
           Transaction(ch, text, u, f)
    \/ \E ch \in Channels, m \in BOOLEAN, n \in Limits, f \in 0..MaxFail : List(ch, m, n, f)
    \/ \E ch \in Channels, f \in 0..MaxFail : ListDebt(ch, f)
    \/ \E ch \in Channels, n \in 0..MaxTarget, f \in 0..MaxFail : Paid(ch, n, f)
    \/ \E ch \in Channels, T \in SUBSET (0..MaxTarget), f \in 0..MaxFail : Delete(ch, T, f)
    \/ \E ch \in Channels, n \in 1..MaxTarget, f \in 0..MaxFail : DeleteLast(ch, n, f)
    \/ \E ch \in Channels, n \in 0..MaxTarget, tok \in EditAmounts, f \in 0..MaxFail :
           Edit(ch, n, tok, f)
    \/ \E ch \in Channels, f \in 0..MaxFail : Undo(ch, f)
    \/ \E ch \in Channels, f \in 0..MaxFail : Status(ch, f)
    \/ \E ch \in Channels : Help(ch)
    \/ \E t \in Instants : Tick(t)

Spec == Init /\ [][Next]_vars

\* list, delete and undo on the sheet the bot found
NextDelete ==
    \/ \E ch \in Channels, m \in BOOLEAN, n \in Limits, f \in 0..MaxFail : List(ch, m, n, f)
    \/ \E ch \in Channels, T \in SUBSET (0..MaxTarget), f \in 0..MaxFail : Delete(ch, T, f)
    \/ \E ch \in Channels, n \in 1..MaxTarget, f \in 0..MaxFail : DeleteLast(ch, n, f)
    \/ \E ch \in Channels, f \in 0..MaxFail : Undo(ch, f)

SpecDelete == Init /\ [][NextDelete]_vars

\* the debt list, paid and undo
NextLoan ==
    \/ \E ch \in Channels, f \in 0..MaxFail : ListDebt(ch, f)
    \/ \E ch \in Channels, n \in 0..MaxTarget, f \in 0..MaxFail : Paid(ch, n, f)
    \/ \E ch \in Channels, f \in 0..MaxFail : Undo(ch, f)

SpecLoan == Init /\ [][NextLoan]_vars

\* list, edit and undo
NextEdit ==
    \/ \E ch \in Channels, m \in BOOLEAN, n \in Limits, f \in 0..MaxFail : List(ch, m, n, f)
    \/ \E ch \in Channels, n \in 0..MaxTarget, tok \in EditAmounts, f \in 0..MaxFail :
           Edit(ch, n, tok, f)
    \/ \E ch \in Channels, f \in 0..MaxFail : Undo(ch, f)

SpecEdit == Init /\ [][NextEdit]_vars

\* free-form messages, status, help and undo, with the clock running
NextAdd ==
    \/ \E ch \in Channels, text \in Texts, u \in Senders, f \in 0..MaxFail :
           Transaction(ch, text, u, f)
    \/ \E ch \in Channels, f \in 0..MaxFail : Undo(ch, f)
    \/ \E ch \in Channels, f \in 0..MaxFail : Status(ch, f)
    \/ \E ch \in Channels : Help(ch)
    \/ \E t \in Instants : Tick(t)

SpecAdd == Init /\ [][NextAdd]_vars

\* deliveries of one watched message and of any number of other messages
NextDedup ==
    \E ch \in Channels, watched \in BOOLEAN, keep \in BOOLEAN : Deliver(ch, watched, keep)

SpecDedup == Init /\ [][NextDedup]_vars

\* deliveries of one watched message, whose handler raises, and of other messages
NextRetry ==
    \E ch \in Channels, watched \in BOOLEAN, keep \in BOOLEAN :
        DeliverOf(ch, IF watched THEN RaisingText ELSE OtherText, watched, keep)

SpecRetry == Init /\ [][NextRetry]_vars

\* two channels of one workspace: the one sheet, an undo action and caches each
Rooms == {"c1", "c2"}

InitRooms == StartedOn(Rooms) /\ call = NoCall

\* free-form messages, `delete last` and undo on either channel
NextRooms ==
    \/ \E ch \in Rooms, text \in Texts, u \in Senders : Transaction(ch, text, u, 0)
    \/ \E ch \in Rooms, n \in 1..MaxTarget : DeleteLast(ch, n, 0)
    \/ \E ch \in Rooms : Undo(ch, 0)

SpecRooms == InitRooms /\ [][NextRooms]_vars

\* list, then positional deletes and edits of one target, no store failure
NextRepeat ==
    \/ \E ch \in Channels, m \in BOOLEAN, n \in Limits : List(ch, m, n, 0)
    \/ \E ch \in Channels, k \in 1..MaxTarget : Delete(ch, {k}, 0)
    \/ \E ch \in Channels, k \in 1..MaxTarget, tok \in EditAmounts : Edit(ch, k, tok, 0)

SpecRepeat == Init /\ [][NextRepeat]_vars

\* free-form messages, dated ones among them, and undo
NextDated ==
    \/ \E ch \in Channels, text \in Texts \cup DatedTexts, u \in Senders, f \in 0..MaxFail :
           Transaction(ch, text, u, f)
    \/ \E ch \in Channels, f \in 0..MaxFail : Undo(ch, f)

SpecDated == Init /\ [][NextDated]_vars

\* two request threads, statement by statement, and undo
NextThreads ==
    \/ \E t \in Threads, ch \in Channels, watched \in BOOLEAN : Receive(t, ch, watched)
    \/ \E t \in Threads : TestSeen(t)
    \/ \E t \in Threads, keep \in BOOLEAN : AddSeen(t, keep)
    \/ \E t \in Threads : Log(t)
    \/ \E t \in Threads : CountRows(t)
    \/ \E t \in Threads : StoreUndo(t)
    \/ \E ch \in Channels : Undo(ch, 0)

SpecThreads == Init /\ [][NextThreads]_vars

\* the fund calculator, fund apply, update fund, undo and status
NextFund ==
    \/ \E ch \in Channels, f \in 0..MaxFail : Fund(ch, f)
    \/ \E ch \in Channels, words \in ApplyWords, f \in 0..MaxFail : FundApply(ch, words, f)
    \/ \E ch \in Channels, text \in UpdateTexts, f \in 0..MaxFail : UpdateFund(ch, text, f)
    \/ \E ch \in Channels, f \in 0..MaxFail : Undo(ch, f)
    \/ \E ch \in Channels, f \in 0..MaxFail : Status(ch, f)

SpecFund == Init /\ [][NextFund]_vars

\* ------------------------------------------------- functions on their own
\* everything but the call stays as the bot started
Idle ==
    UNCHANGED <<ledger, nextId, last_action, last_list_results, last_debt_list,
                shared, now, creds, last, pre, steps, processed_events, cut, dropped,
                threads>>

Input(x) == [fn |-> "input", arg |-> x, ret |-> <<>>]

\* the function fn is applied to the argument drawn at the start
Apply(fn, ret) ==
    /\ call.fn = "input"
    /\ call' = [fn |-> fn, arg |-> call.arg, ret |-> ret]
    /\ Idle

\* amount tokens: integer part, optional fraction, optional suffix, and comma forms
IntParts == { <<"0">>, <<"1">>, <<"2">>, <<"4">>, <<"8">>, <<"1", "5">> }
FracParts == { <<>>, <<".", "1">>, <<".", "2">>, <<".", "5">>, <<".", "8">>,
               <<".", "0", "0", "1">> }
SuffixParts == { <<>> } \cup { <<x>> : x \in Suffixes }
CommaTokens ==
    { <<"1", "5", ",", "5", "k">>, <<"1", ",", "5", "m">>,
      <<"2", ",", "8", "0", "0", ",", "0", "0", "0">>, <<"1", ",", "0", "0", "0", "k">>,
      <<"1", ",", "5", "0", "0", "k">>, <<"1", ",", "5", "0", "k">>, <<"1", ",", "5">> }
\* tokens outside digits[.digits][K|M]
OddTokens ==
    { <<"1", ".", "2", ".", "3">>, <<".">>, <<".", ".">>, <<"1", ".", "5", ".", "k">>,
      <<"5", ".">>, <<".", "5">>, <<"k">>, <<"1", "k", "5">>, <<"1", ",", "k">> }
AmountTokens ==
    { i \o f \o x : i \in IntParts, f \in FracParts, x \in SuffixParts }
        \cup CommaTokens \cup OddTokens

ParseAmount == Apply("parse_amount", parse_amount(call.arg))

InitAmount == Started /\ call \in { Input(t) : t \in AmountTokens }
NextAmount == ParseAmount
SpecAmount == InitAmount /\ [][NextAmount]_vars


\* texts of up to three tokens: month names, an amount and a word
MonthWords ==
    { W("jan"), W("mar"), W("dec"), W("Dec"), <<"1", "5", "0", "k">>, W("gas") }
MonthTexts ==
    { <<a>> : a \in MonthWords } \cup { <<a, b>> : a \in MonthWords, b \in MonthWords }
        \cup { <<a, b, c>> : a \in MonthWords, b \in MonthWords, c \in MonthWords }

ExtractMonth == Apply("extract_month_from_text", extract_month_from_text(call.arg))

InitMonth == Started /\ call \in { Input(t) : t \in MonthTexts }
NextMonth == ExtractMonth
SpecMonth == InitMonth /\ [][NextMonth]_vars


\* texts of up to three tokens: the month forms, an amount and a word
FormWords ==
    { <<"2", "0", "2", "4", "-", "3">>, <<"2", "0", "2", "3", "-", "1", "2">>,
      <<"2", "0", "2", "4", "-", "1", "3">>, <<"3", "/", "2", "0", "2", "4">>,
      <<"1", "2", "/", "2", "0", "2", "3">>, W("jan"), <<"1", "5", "0", "k">>, W("gas") }
FormTexts ==
    { <<a>> : a \in FormWords } \cup { <<a, b>> : a \in FormWords, b \in FormWords }
        \cup { <<a, b, c>> : a \in FormWords, b \in FormWords, c \in FormWords }

InitForms == Started /\ call \in { Input(t) : t \in FormTexts }
NextForms == ExtractMonth
SpecForms == InitForms /\ [][NextForms]_vars


\* descriptions of one or two words, some in upper case
CategoryWords ==
    { W("lunch"), W("LUNCH"), W("meat"), W("gas"), W("ticket"), W("Ticket"),
      W("salary"), W("loan"), W("hello") }
CategoryTexts ==
    { <<a>> : a \in CategoryWords } \cup { <<a, b>> : a \in CategoryWords, b \in CategoryWords }

DetectCategory == Apply("detect_category", detect_category(call.arg))

InitCategory == Started /\ call \in { Input(t) : t \in CategoryTexts }
NextCategory == DetectCategory
SpecCategory == InitCategory /\ [][NextCategory]_vars


\* messages of up to four different tokens: a person, a month, an amount, words
TxWords ==
    { W("jacob"), W("dec"), <<"1", "5", "0", "K">>, W("fee"), W("gas"), W("repay"),
      W("wifi") }
TxTexts ==
    { <<a>> : a \in TxWords }
        \cup { t \in { <<a, b>> : a \in TxWords, b \in TxWords } : t[1] # t[2] }
        \cup { t \in { <<a, b, c>> : a \in TxWords, b \in TxWords, c \in TxWords } :
                   Cardinality({t[1], t[2], t[3]}) = 3 }
        \cup { t \in { <<a, b, c, d>> : a \in TxWords, b \in TxWords, c \in TxWords,
                                        d \in TxWords } :
                   Cardinality({t[1], t[2], t[3], t[4]}) = 4 }
TxSenders == {"Jacob", "Naomi"}

\* parse_transaction; the Fixed Bills sheet is there when the credentials are
ParseTransaction ==
    Apply("parse_transaction", parse_transaction(call.arg.text, call.arg.user_name, creds))

InitTx ==
    Started /\ call \in { Input([text |-> t, user_name |-> u]) : t \in TxTexts, u \in TxSenders }
NextTx == ParseTransaction
SpecTx == InitTx /\ [][NextTx]_vars

\* messages of up to four different tokens: an amount, a loan word, repayment
\* words, income words, a fixed bill and a category word
KindWords ==
    { <<"1", "5", "0", "K">>, W("loan"), W("repay"), W("nhận lại/trả nợ:"), W("fee"),
      W("gas"), W("lunch"), W("salary") }
KindTexts ==
    { <<a>> : a \in KindWords }
        \cup { t \in { <<a, b>> : a \in KindWords, b \in KindWords } : t[1] # t[2] }
        \cup { t \in { <<a, b, c>> : a \in KindWords, b \in KindWords, c \in KindWords } :
                   Cardinality({t[1], t[2], t[3]}) = 3 }
        \cup { t \in { <<a, b, c, d>> : a \in KindWords, b \in KindWords, c \in KindWords,
                                        d \in KindWords } :
                   Cardinality({t[1], t[2], t[3], t[4]}) = 4 /\ <<"1", "5", "0", "K">> \in
                       {t[1], t[2], t[3], t[4]} }

InitKind ==
    Started /\ call \in { Input([text |-> t, user_name |-> "Jacob"]) : t \in KindTexts }
NextKind == ParseTransaction
SpecKind == InitKind /\ [][NextKind]_vars


\* the messages sent to the bot; the second `list nợ` is typed with combining
\* marks: o, U+031B (horn), U+0323 (dot below) in place of the one letter U+1EE3
Messages ==
    { << W("status") >>, << W("help") >>, << W("undo") >>, << W("loan") >>,
      << W("list") >>, << W("list"), W("debt") >>,
      << W("list"), Composed >>, << W("list"), Decomposed >>,
      << W("list"), <<"5", "0", "k">>, W("lunch") >>,
      << W("last"), <<"2">> >>,
      << W("paid"), <<"1">> >>, << W("paid"), <<"1", ",", "2">> >>,
      << W("paid"), <<"1", "-", "2">> >>, << W("paid"), <<"5", "0", "k">>, W("bob") >>,
      << W("delete"), <<"1">> >>, << W("delete"), <<"1", ",", "2">> >>,
      << W("delete"), <<"1", "-", "2">> >>, << W("delete"), <<"5", "0", "k">>, W("lunch") >>,
      << W("edit"), <<"1">>, <<"9", "0", "K">> >>, << W("edit"), <<"1">>, <<"0">> >>,
      << W("lunch"), <<"5", "0", "k">> >>, << <<"0">>, W("lunch") >> }

\* messages of every kind, the store answering every call
NextRoute ==
    \E ch \in Channels, text \in Messages, u \in Senders : Message(ch, text, u, 0)

SpecRoute == Init /\ [][NextRoute]_vars


\* ================================================================= claims
\* a command was handled in this step
Handled == steps' = steps + 1

\* the rows of a ledger as a multiset of their contents
Content(r) == [r EXCEPT !.uid = 0]
RowBag(L) ==
    [c \in {Content(L[i]) : i \in DOMAIN L} |->
        Cardinality({i \in DOMAIN L : Content(L[i]) = c})]
Contents(L) == [i \in DOMAIN L |-> Content(L[i])]

\* C1: a successful undo that directly follows a successful delete of several
\* targets on the same channel puts every deleted row back: the ledger then
\* holds the same multiset of rows as before the delete.
C1_UndoRestoresDeletedRows ==
    [][ ( /\ Handled
          /\ last.cmd = "delete" /\ last.reply = "ok"
          /\ last_action[last.ch].type = "delete"
          /\ Len(last_action[last.ch].data.rows) >= 2
          /\ last'.cmd = "undo" /\ last'.ch = last.ch /\ last'.reply = "ok" )
        => RowBag(ledger') = RowBag(pre) ]_vars

\* an undo has put two or more rows back and the ledger holds the rows it
\* started with, in another order
C1_Witness ==
    /\ last.cmd = "undo" /\ last.reply = "ok"
    /\ Len(ledger) >= Len(pre) + 2
    /\ RowBag(ledger) = RowBag(InitLedger)
    /\ ledger # InitLedger

\* whether entry n of the cached debt list still describes its row of the sheet
FreshLoan(ch, n) ==
    LET items == last_debt_list[ch].items
    IN  /\ last_debt_list[ch].has /\ n \in DOMAIN items
        /\ items[n].row_index - 1 \in DOMAIN ledger
        /\ ledger[items[n].row_index - 1].uid = items[n].uid
        /\ ledger[items[n].row_index - 1].description = items[n].description

\* C2: paid k marks exactly the k-th loan's row with [PAID] and appends one
\* Income row; an undo directly after it leaves the ledger as it was before
\* the paid, with as many outstanding loans.
C2_PaidThenUndoRestoresLedger ==
    [][ /\ \A ch \in Channels, n \in 1..MaxTarget, f \in 0..MaxFail :
             (Paid(ch, n, f) /\ last'.reply = "ok" /\ FreshLoan(ch, n)) =>
                LET r == last_debt_list[ch].items[n].row_index - 1
                IN  /\ Len(ledger') = Len(ledger) + 1
                    /\ SubSeq(ledger', 1, Len(ledger))
                         = [ledger EXCEPT ![r].description = <<W("[PAID]")>> \o @]
                    /\ ledger'[Len(ledger')].type = "Income"
        /\ ( /\ Handled
             /\ last.cmd = "paid" /\ last.reply = "ok"
             /\ last'.cmd = "undo" /\ last'.ch = last.ch /\ last'.reply = "ok" )
           => /\ Contents(ledger') = Contents(pre)
              /\ Len(get_outstanding_loans(ledger')) = Len(get_outstanding_loans(pre))
      ]_vars

\* C3: two deliveries of the same message identifier cause at most one ledger
\* mutation, however many other events come between them.
C3_AtMostOneMutation == Len(ledger) <= Len(InitLedger) + 1

\* C3, amended: the message of one identifier is logged a second time only
\* after the seen-set was cut back to fifty of its members.
C3_AtMostOneMutationUntilCut == Len(ledger) >= Len(InitLedger) + 2 => cut

\* a second delivery was dropped after other events had come in
C3_Witness ==
    /\ dropped /\ ~cut
    /\ processed_events.others >= 1
    /\ Len(ledger) = Len(InitLedger) + 1

C5_UndoExpires ==
    [][ ( /\ Handled
          /\ last'.cmd = "undo"
          /\ last_action[last'.ch].type # "none"
          /\ now - last_action[last'.ch].timestamp > UNDO_TTL )
        => /\ last'.reply = "expired"
           /\ ledger' = ledger ]_vars

\* C6: a delete with no cached list, with a target outside the cached list,
\* or without a reachable store answers with an error, deletes no row and
\* leaves the pending undo action alone; the handler does not raise.
C6_DeleteRejectsCleanly ==
    [][ \A ch \in Channels, T \in SUBSET (0..MaxTarget) :
          ( /\ Delete(ch, T, 0)
            /\ \/ ~last_list_results[ch].has
               \/ \E t \in T : t \notin DOMAIN last_list_results[ch].items
               \/ ~creds )
          => /\ ~last'.raised
             /\ last'.reply # "none"
             /\ ledger' = ledger
             /\ last_action' = last_action ]_vars

\* C7: an edit with a well-formed amount, or a paid, whose position is
\* outside 1..length of the cached list, or that finds no cached list, is
\* rejected with the advice to list first; it changes no row and records no
\* undo action.
C7_RejectsBadPosition ==
    [][ /\ \A ch \in Channels, n \in 0..MaxTarget, f \in 0..MaxFail :
             ( /\ Edit(ch, n, <<"9", "0", "K">>, f)
               /\ \/ ~last_list_results[ch].has
                  \/ n \notin DOMAIN last_list_results[ch].items )
             => /\ last'.reply = "use_list_first"
                /\ ledger' = ledger
                /\ last_action' = last_action
        /\ \A ch \in Channels, n \in 0..MaxTarget, f \in 0..MaxFail :
             ( /\ Paid(ch, n, f)
               /\ \/ ~last_debt_list[ch].has
                  \/ n \notin DOMAIN last_debt_list[ch].items )
             => /\ last'.reply = "use_list_first"
                /\ ledger' = ledger
                /\ last_action' = last_action
      ]_vars

\* C8: a command that ends in an error (a store call fails, or the store
\* cannot be reached) leaves the ledger as it was: no partial write.
C8_NoPartialWrite ==
    [][ ( /\ Handled
          /\ \/ last'.raised
             \/ last'.reply \in {"store_error", "cannot_connect"} )
        => ledger' = ledger ]_vars

\* C9: when a store call fails, the handler answers with an error message
\* and does not raise.
C9_StoreFailureIsReported ==
    [][ /\ \A ch \in Channels, text \in Texts, u \in Senders, f \in 1..MaxFail :
             (Transaction(ch, text, u, f) /\ Parsed[text, u, creds].kind = "tx")
                => ~last'.raised
        /\ \A ch \in Channels, f \in 1..MaxFail :
             Status(ch, f) => (~last'.raised /\ last'.reply # "none")
      ]_vars

\* the messages no amount can be taken from
NoAmountTexts ==
    { << W("hello") >>, << <<"0">>, W("lunch") >>, << <<".", ".", ".">> >> }

\* C10: a message that is no command and holds no amount gets no reply, adds
\* no row, and leaves the pending undo action and both list caches as they were.
C10_NoAmountIsIgnored ==
    [][ \A ch \in Channels, text \in NoAmountTexts, u \in Senders, f \in 0..MaxFail :
          Transaction(ch, text, u, f)
          => /\ last'.reply = "none"
             /\ ledger' = ledger
             /\ last_action' = last_action
             /\ last_list_results' = last_list_results
             /\ last_debt_list' = last_debt_list ]_vars

\* a message was ignored while an undo action was pending
C10_Witness ==
    /\ last.cmd = "transaction" /\ last.reply = "none" /\ ~last.raised
    /\ last_action[last.ch].type = "add"
    /\ ledger = pre
\* ---------------------------------------------------------------- C15
\* the multiplier a suffix stands for
ClaimedMultiplier(tok) ==
    IF tok[Len(tok)] \in {"m", "M"} THEN 1000000
    ELSE IF tok[Len(tok)] \in {"k", "K"} THEN 1000
    ELSE 1

\* digits, comma, exactly one digit, suffix: the comma is a decimal point
ClaimedCommaDecimal(tok) ==
    /\ Len(tok) >= 4
    /\ tok[Len(tok)] \in Suffixes
    /\ tok[Len(tok) - 1] \in Digits
    /\ tok[Len(tok) - 2] = ","
    /\ AllIn(SubSeq(tok, 1, Len(tok) - 3), Digits)

\* the digits and the decimal point of the token, commas and suffix taken out
ClaimedNumber(tok) ==
    StripSym(IF ClaimedCommaDecimal(tok) THEN [i \in DOMAIN tok |-> IF tok[i] = "," THEN "." ELSE tok[i]]
             ELSE StripSym(tok, {","}), Suffixes)

\* n / 10^frac times mult, the fraction of the product cut off
ClaimedProduct(n, frac, mult) ==
    IF mult >= Pow10(frac) THEN n * (mult \div Pow10(frac))
    ELSE n \div (Pow10(frac) \div mult)

ClaimedAmount(tok) ==
    ClaimedProduct(DigitsVal(StripSym(ClaimedNumber(tok), {"."})),
                   Len(ClaimedNumber(tok)) - DotAt(ClaimedNumber(tok))
                       + (IF Count(ClaimedNumber(tok), ".") = 0 THEN 1 ELSE 0),
                   ClaimedMultiplier(tok))

\* C15: parse_amount of a token digits[.digits][K|M] is its value times the
\* suffix's multiplier (1,000,000 for M, 1,000 for K, 1 without), the fraction
\* cut off; thousands commas are stripped and "15,5k" reads 15.5k
C15_ParseAmountValue ==
    call.fn = "parse_amount"
        => call.ret = [kind |-> "int", v |-> ClaimedAmount(call.arg)]

\* the three amounts the specification names come out as it says
C15_NamedAmounts ==
    call.fn = "parse_amount" =>
        /\ call.arg = <<"1", "5", ",", "5", "k">> => call.ret.v = 15500
        /\ call.arg = <<"2", ",", "8", "0", "0", ",", "0", "0", "0">> => call.ret.v = 2800000
        /\ call.arg = <<"2", ".", "8", "M">> => call.ret.v = 2800000


\* ---------------------------------------------------------------- C16
\* the month a token names, 0 when it names none
ClaimedMonth(tok) ==
    CASE tok \in {W("jan")} -> 1
      [] tok \in {W("mar")} -> 3
      [] tok \in {W("dec"), W("Dec")} -> 12
      [] OTHER -> 0

\* the position of the first month name of a text, 0 when it has none
ClaimedMonthPos(text) == FirstOf({i \in DOMAIN text : ClaimedMonth(text[i]) # 0})

\* C16: a month name resolves to the current year when its month is at most the
\* current month and to the previous year otherwise; the result is backdated
\* exactly when (year, month) is not the current one; the month token leaves the
\* text; a text with no month token gives the current month, not backdated
C16_MonthResolution ==
    call.fn = "extract_month_from_text" =>
        IF ClaimedMonthPos(call.arg) = 0
        THEN call.ret = [text |-> call.arg, month |-> NowMonth, lastYear |-> FALSE,
                         year |-> NowYear, is_backdated |-> FALSE]
        ELSE /\ call.ret.month = ClaimedMonth(call.arg[ClaimedMonthPos(call.arg)])
             /\ call.ret.lastYear = (call.ret.month > NowMonth)
             /\ call.ret.year = (IF call.ret.lastYear THEN NowYear - 1 ELSE NowYear)
             /\ call.ret.is_backdated = (call.ret.lastYear \/ call.ret.month # NowMonth)
             /\ call.ret.text = RemoveAt(call.arg, ClaimedMonthPos(call.arg))

\* "dec 150k gas" in March: December of the previous year, backdated, "150k gas" left
C16_Witness ==
    /\ call.fn = "extract_month_from_text"
    /\ call.arg = << W("dec"), <<"1", "5", "0", "k">>, W("gas") >>
    /\ call.ret = [text |-> << <<"1", "5", "0", "k">>, W("gas") >>, month |-> 12,
                   lastYear |-> TRUE, year |-> NowYear - 1, is_backdated |-> TRUE]


\* ---------------------------------------------------------------- C17
\* the categories in their declared order
ClaimedOrder ==
    << "Food & Dining", "Groceries", "Transport", "Entertainment", "Loan & Debt", "Income" >>

\* the declared positions of the categories with a keyword inside the word, whatever its case
ClaimedCategories(word) ==
    CASE word \in {W("lunch"), W("LUNCH")} -> {1}
      [] word = W("meat") -> {1, 2}
      [] word = W("gas") -> {3}
      [] word \in {W("ticket"), W("Ticket")} -> {3, 4}
      [] word = W("loan") -> {5}
      [] word = W("salary") -> {6}
      [] OTHER -> {}

ClaimedHits(text) == UNION { ClaimedCategories(text[i]) : i \in DOMAIN text }

\* C17: the category of a description is the earliest declared category with a
\* keyword that occurs in the lower-cased description, and 'Other' when no
\* keyword occurs; a shared keyword goes to the earlier category in any casing
C17_FirstDeclaredCategoryWins ==
    call.fn = "detect_category" =>
        call.ret = IF ClaimedHits(call.arg) = {} THEN "Other"
                   ELSE ClaimedOrder[FirstOf(ClaimedHits(call.arg))]

\* "Ticket", a keyword of Transport and of Entertainment, typed with a capital
C17_Witness ==
    /\ call.fn = "detect_category"
    /\ call.arg = << W("salary"), W("Ticket") >>
    /\ call.ret = "Transport"


\* ---------------------------------------------------------------- C13
\* the person, month and amount tokens of the messages
ClaimedMovable == { W("jacob"), W("dec"), <<"1", "5", "0", "K">> }

\* the description words of a message, in their order
ClaimedWords(text) == SelectSeq(text, LAMBDA t : t \notin ClaimedMovable)

\* t2 is t1 with its person, month and amount tokens moved
Rearranged(t1, t2) ==
    /\ Len(t1) = Len(t2)
    /\ { t1[i] : i \in DOMAIN t1 } = { t2[i] : i \in DOMAIN t2 }
    /\ ClaimedWords(t1) = ClaimedWords(t2)

SameTransaction(r1, r2) ==
    /\ r1.kind = r2.kind
    /\ r1.kind = "tx" =>
          /\ r1.person = r2.person /\ r1.amount = r2.amount
          /\ r1.month = r2.month /\ r1.is_backdated = r2.is_backdated
          /\ r1.category = r2.category /\ r1.type = r2.type

\* C13: moving the person token, the month token and the amount token of a
\* message, its other words keeping their order, gives the same transaction:
\* person, amount, month, category and type
C13_TokenOrderIsIrrelevant ==
    call.fn = "parse_transaction" =>
        \A t2 \in TxTexts :
            Rearranged(call.arg.text, t2) =>
                SameTransaction(call.ret, parse_transaction(t2, call.arg.user_name, creds))


\* ---------------------------------------------------------------- C14
\* the active fixed bill a description matches: its category and the person it
\* gives the transaction; "none" when the description matches no bill
ClaimedBill(description) ==
    IF \E i \in DOMAIN description : description[i] = W("gas")
    THEN [category |-> "Gas", person |-> "Joint"]
    ELSE IF description = << W("wifi") >>
    THEN [category |-> "Internet", person |-> "Naomi"]
    ELSE [category |-> "none", person |-> "none"]

\* parse_transaction returned a transaction whose description matches a bill
BillMatched ==
    /\ call.fn = "parse_transaction"
    /\ creds
    /\ call.ret.kind = "tx"
    /\ ClaimedBill(call.ret.description).category # "none"

\* C14 as stated: a description that matches an active fixed bill gives the
\* bill's category and the bill's owner (Joint for 'Both') as the person,
\* whoever sent the message and whoever it names
C14_BillGivesCategoryAndPerson ==
    BillMatched =>
        /\ call.ret.category = ClaimedBill(call.ret.description).category
        /\ call.ret.person = ClaimedBill(call.ret.description).person

\* C14, amended: the person is the bill's owner, and the category is the bill's
\* category unless the description holds a repayment phrase, which makes the
\* category 'Loan & Debt' and the type Income
C14_BillGivesCategoryUnlessRepayment ==
    BillMatched =>
        /\ call.ret.person = ClaimedBill(call.ret.description).person
        /\ call.ret.category =
               IF \E i \in DOMAIN call.ret.description : call.ret.description[i] = W("repay")
               THEN "Loan & Debt"
               ELSE ClaimedBill(call.ret.description).category

\* `jacob gas 150K` sent by Naomi: the bill Gas wins over the sender and over jacob
C14_Witness ==
    /\ call.fn = "parse_transaction"
    /\ creds
    /\ call.arg = [text |-> << W("jacob"), W("gas"), <<"1", "5", "0", "K">> >>,
                   user_name |-> "Naomi"]
    /\ call.ret.kind = "tx"
    /\ call.ret.person = "Joint" /\ call.ret.amount = 150000
    /\ call.ret.category = "Gas" /\ call.ret.type = "Expense"


\* ---------------------------------------------------------------- C11
\* a message was handled by slack_events in this step
Routed_step == Handled /\ call'.fn = "slack_events"

\* the handler the priority list gives each message (nợ typed in composed form)
ClaimedHandler(text) ==
    CASE text = << W("status") >> -> "status"
      [] text = << W("help") >> -> "help"
      [] text = << W("undo") >> -> "undo"
      [] text \in { << W("loan") >>, << W("list"), W("debt") >>, << W("list"), Composed >> }
            -> "list_debt"
      [] text[1] = W("paid") -> "paid"
      [] text[1] \in { W("list"), W("last") } -> "list"
      [] text[1] = W("delete") -> "delete"
      [] text[1] = W("edit") -> "edit"
      [] OTHER -> "transaction"

\* C11: the handler that runs is the first of the priority list that matches:
\* the `list debt` synonyms go to the debt list and not to the general list, and
\* a message that begins with paid, list, last, delete or edit is never logged
\* as a transaction, whatever amount token it holds (no add action is recorded,
\* and no row is appended except the Income row of paid)
C11_FirstMatchWins ==
    [][Routed_step /\ call'.arg # << W("list"), Decomposed >> =>
          /\ last'.cmd = ClaimedHandler(call'.arg)
          /\ call'.arg[1] \in { W("paid"), W("list"), W("last"), W("delete"), W("edit") } =>
                /\ last_action'["c1"] # last_action["c1"] => last_action'["c1"].type # "add"
                /\ call'.arg[1] \in { W("list"), W("last") } => ledger' = ledger
                /\ call'.arg[1] # W("paid") => nextId' = nextId]_vars

\* `list nợ` ran the debt list, and `paid 50k bob` was answered with the usage text
C11_Witness ==
    /\ call.fn = "slack_events"
    /\ \/ /\ call.arg = << W("list"), Composed >>
          /\ last.cmd = "list_debt" /\ last.reply = "listed" /\ last_debt_list["c1"].has
       \/ /\ call.arg = << W("paid"), <<"5", "0", "k">>, W("bob") >>
          /\ last.cmd = "paid" /\ last.reply = "usage" /\ ledger = pre

\* ---------------------------------------------------------------- C12
\* C12: `paid 1,2` and `paid 1-2`, sent right after a debt list of two loans or
\* more, mark the first and the second loan of the list as paid
C12_PaidTakesTargetList ==
    [][(/\ Routed_step
        /\ call'.arg \in { << W("paid"), <<"1", ",", "2">> >>, << W("paid"), <<"1", "-", "2">> >> }
        /\ creds
        /\ last.cmd = "list_debt" /\ last.reply = "listed"
        /\ Len(last_debt_list["c1"].items) >= 2)
       => \A n \in 1..2 :
              StartsPaid(ledger'[last_debt_list["c1"].items[n].row_index - 1].description)]_vars

\* ---------------------------------------------------------------- C18
\* Unicode composition on the words of a message
ClaimedComposition(text) ==
    [i \in DOMAIN text |-> IF text[i] = Decomposed THEN Composed ELSE text[i]]

\* C18: a message runs the handler its composed form runs: `list nợ` typed with
\* combining marks runs the debt list like `list nợ` typed with the one letter
C18_ComposedAndDecomposedAlike ==
    call.fn = "slack_events" => call.ret = dispatch(Lower(ClaimedComposition(call.arg)))

\* ---------------------------------------------------------------- C19
\* C19: every Income and Expense row of the ledger has an amount above zero,
\* whatever transaction messages, edits and undos were sent: `0 lunch` is not
\* logged and `edit 1 0` is refused
C19_AmountsArePositive ==
    \A i \in DOMAIN ledger : ledger[i].type \in {"Income", "Expense"} => ledger[i].amount > 0

\* `edit 1 0` was refused after a list, and `0 lunch` left the ledger alone
C19_Witness ==
    /\ call.fn = "slack_events"
    /\ \/ /\ call.arg = << W("edit"), <<"1">>, <<"0">> >>
          /\ last_list_results["c1"].has
          /\ last.reply = "invalid_amount" /\ ledger = pre
       \/ /\ call.arg = << <<"0">>, W("lunch") >>
          /\ last.cmd = "transaction" /\ last.reply = "none" /\ ledger = pre


\* ---------------------------------------------------------------- C20
Uids(L) == { L[i].uid : i \in DOMAIN L }

\* a delete of two targets or more that went through
MultiDelete(T) ==
    /\ Delete("c1", T, 0)
    /\ Cardinality(T) >= 2
    /\ last'.reply = "ok"

\* the rows that left the ledger are the rows of the targeted cached entries
RemovedAreTargeted(T) ==
    /\ Uids(ledger) \ Uids(ledger') = { last_list_results["c1"].items[n].uid : n \in T }
    /\ Len(ledger') = Len(ledger) - Cardinality(T)

\* every cached entry still names the row it was listed from
CacheCurrent ==
    \A n \in DOMAIN last_list_results["c1"].items :
        /\ last_list_results["c1"].items[n].row_index - 1 \in DOMAIN ledger
        /\ ledger[last_list_results["c1"].items[n].row_index - 1].uid
               = last_list_results["c1"].items[n].uid

\* C20: a delete of several valid targets removes exactly the rows of the
\* targeted entries of the cached list and no other row, whatever list is cached
C20_DeleteRemovesTargetedRows ==
    [][\A T \in SUBSET (1..MaxTarget) : MultiDelete(T) => RemovedAreTargeted(T)]_vars

\* the same for a cached list none of whose entries has lost its row
C20_CurrentCacheDeletesTargetedRows ==
    [][\A T \in SUBSET (1..MaxTarget) :
           MultiDelete(T) /\ CacheCurrent => RemovedAreTargeted(T)]_vars


\* ---------------------------------------------------------------- C21
\* the entries of a cached list whose row is still in the ledger name its position
PointsAtRows(L, cached) ==
    \A n \in DOMAIN cached.items :
        cached.items[n].uid \in Uids(L) =>
            /\ cached.items[n].row_index - 1 \in DOMAIN L
            /\ L[cached.items[n].row_index - 1].uid = cached.items[n].uid

\* C21: after a successful delete, every entry of the channel's list cache and
\* of its debt-list cache whose transaction is still in the ledger has the
\* row index of that transaction's row
C21_DeleteReindexesBothCaches ==
    [][ (call'.fn = "slack_events" /\ last'.cmd = "delete" /\ last'.reply = "ok")
        => /\ PointsAtRows(ledger', last_list_results'[last'.ch])
           /\ PointsAtRows(ledger', last_debt_list'[last'.ch]) ]_vars

\* the same for the list cache alone, when every one of its entries named its
\* row before the delete
C21_DeleteReindexesCurrentListCache ==
    [][ ( /\ call'.fn = "slack_events" /\ last'.cmd = "delete" /\ last'.reply = "ok"
          /\ CacheCurrent )
        => PointsAtRows(ledger', last_list_results'[last'.ch]) ]_vars


\* ---------------------------------------------------------------- C22
\* the result set a list command shows; nothing can be read without credentials
Shown(m, n) ==
    IF creds THEN filter_transactions(get_all_transactions(ledger), m, n) ELSE <<>>

\* the transactions a cached list holds
CachedUids(cached) == { cached.items[i].uid : i \in DOMAIN cached.items }

\* C22: the list cache is the result set of the last list command shown on
\* the channel: a list command leaves its own result set in the cache, an
\* empty one included, and `delete last` puts no transaction into the cache
\* that the cached list did not hold
C22_CacheIsTheLastListShown ==
    [][ /\ \A ch \in Channels, m \in BOOLEAN, n \in Limits, f \in 0..MaxFail :
             (List(ch, m, n, f) /\ ~last'.raised)
                => last_list_results'[ch].items = Shown(m, n)
        /\ \A ch \in Channels, n \in 1..MaxTarget, f \in 0..MaxFail :
             DeleteLast(ch, n, f)
                => CachedUids(last_list_results'[ch]) \subseteq CachedUids(last_list_results[ch])
      ]_vars

\* a list command with an empty result left an older list in the cache
C22_EmptyListClearsCache ==
    [][ \A ch \in Channels, m \in BOOLEAN, n \in Limits, f \in 0..MaxFail :
          (List(ch, m, n, f) /\ ~last'.raised /\ Shown(m, n) = <<>>)
             => last_list_results'[ch].items = <<>> ]_vars

\* `delete last` put transactions into the cache that no list had shown
C22_DeleteLastKeepsCache ==
    [][ \A ch \in Channels, n \in 1..MaxTarget, f \in 0..MaxFail :
          DeleteLast(ch, n, f)
             => CachedUids(last_list_results'[ch]) \subseteq CachedUids(last_list_results[ch])
      ]_vars

\* a list command with a result of one entry or more caches exactly that result
C22_ShownListIsCached ==
    [][ \A ch \in Channels, m \in BOOLEAN, n \in Limits, f \in 0..MaxFail :
          (List(ch, m, n, f) /\ ~last'.raised /\ Shown(m, n) # <<>>)
             => last_list_results'[ch].items = Shown(m, n) ]_vars


\* ---------------------------------------------------------------- C23
\* the ledger without the row of identity id
Without(L, id) == SelectSeq(L, LAMBDA r : r.uid # id)

\* an undo that went through on a channel whose pending action is an add
UndoOfAdd(ch) ==
    /\ Undo(ch, 0)
    /\ last_action[ch].type = "add"
    /\ last'.reply = "ok"

\* C23: the undo of an add takes the row that the add appended out of the
\* ledger and no other row, whatever was sent on this and on the other channel
\* while the add stayed the channel's pending action
C23_UndoOfAddRemovesItsRow ==
    [][ \A ch \in Rooms :
          UndoOfAdd(ch) => ledger' = Without(ledger, last_action[ch].data.row_data.uid) ]_vars

\* the same for an undo that directly follows its add
C23_UndoDirectlyAfterAdd ==
    [][ \A ch \in Rooms :
          ( /\ UndoOfAdd(ch)
            /\ last.cmd = "transaction" /\ last.ch = ch /\ last.reply = "ok" )
          => ledger' = Without(ledger, last_action[ch].data.row_data.uid) ]_vars


\* ---------------------------------------------------------------- C24
\* the ledger with the amount v in the row of identity id, every other cell as it was
WithAmountOf(L, id, v) ==
    [i \in DOMAIN L |-> IF L[i].uid = id THEN [L[i] EXCEPT !.amount = v] ELSE L[i]]

\* `edit 1 90K` went through
EditedFirst ==
    /\ call'.fn = "slack_events"
    /\ call'.arg = << W("edit"), <<"1">>, <<"9", "0", "K">> >>
    /\ last'.reply = "ok"

\* an undo went through directly after an edit that went through
UndoAfterEdit ==
    /\ Handled
    /\ last.cmd = "edit" /\ last.reply = "ok"
    /\ last'.cmd = "undo" /\ last'.ch = last.ch /\ last'.reply = "ok"

\* C24: a successful `edit n <amount>` changes the amount cell of the row of
\* the n-th cached entry and nothing else, whatever list is cached, and an
\* undo directly after it leaves the ledger as it was before the edit
C24_EditChangesOneCellAndUndoRestores ==
    [][ /\ EditedFirst
           => ledger' = WithAmountOf(ledger, last_list_results["c1"].items[1].uid, 90000)
        /\ UndoAfterEdit => ledger' = pre ]_vars

\* the same for a cached list none of whose entries has lost its row
C24_CurrentCacheEditAndUndo ==
    [][ /\ (EditedFirst /\ CacheCurrent)
           => ledger' = WithAmountOf(ledger, last_list_results["c1"].items[1].uid, 90000)
        /\ UndoAfterEdit => ledger' = pre ]_vars


\* ---------------------------------------------------------------- C25
\* an undo went through directly after the command cmd went through
UndoDirectlyAfter(cmd) ==
    /\ Handled
    /\ last.cmd = cmd /\ last.reply = "ok"
    /\ last'.cmd = "undo" /\ last'.ch = last.ch /\ last'.reply = "ok"

\* the rows of type in the later ledger that the earlier one did not hold
NewRows(before, after, type) ==
    { i \in DOMAIN after : after[i].uid \notin Uids(before) /\ after[i].type = type }

\* C25: fund apply appends one Fund Add row per fund with an amount above
\* zero and update fund one Fund Balance row; an undo directly after either
\* deletes those rows and nothing else, so the ledger is as before the command
C25_FundUndoRestoresLedger ==
    [][ /\ \A ch \in Channels, words \in ApplyWords, f \in 0..MaxFail :
             (FundApply(ch, words, f) /\ last'.reply = "ok")
                => /\ SubSeq(ledger', 1, Len(ledger)) = ledger
                   /\ Len(ledger') = Len(ledger) + Len(last_action'[ch].data.rows)
                   /\ Cardinality(NewRows(ledger, ledger', "Fund Add"))
                          = Len(ledger') - Len(ledger)
        /\ \A ch \in Channels, text \in UpdateTexts, f \in 0..MaxFail :
             (UpdateFund(ch, text, f) /\ last'.reply = "ok")
                => /\ SubSeq(ledger', 1, Len(ledger)) = ledger
                   /\ Len(ledger') = Len(ledger) + 1
                   /\ Cardinality(NewRows(ledger, ledger', "Fund Balance")) = 1
        /\ UndoDirectlyAfter("fund_apply") => ledger' = pre
        /\ UndoDirectlyAfter("update_fund") => ledger' = pre
      ]_vars

\* the undo of a fund apply took both of its rows out again
C25_Witness ==
    /\ last.cmd = "undo" /\ last.reply = "ok"
    /\ Len(pre) = Len(ledger) + 2
    /\ \A i \in (Len(ledger) + 1)..Len(pre) : pre[i].type = "Fund Add"
    /\ ledger = InitLedger


\* ---------------------------------------------------------------- C26
\* the kinds of undo action the specification lists, and no action
ClaimedKinds == {"none", "add", "delete", "edit", "paid", "fund_update", "fund_apply"}

\* C26: the pending undo action of a channel is of a listed kind, and a
\* command that changes no row (status, the fund calculator) leaves it as it was
C26_UndoActionIsOfAMutation ==
    [][ /\ \A ch \in Channels : last_action'[ch].type \in ClaimedKinds
        /\ (Handled /\ last'.cmd \in {"status", "fund"}) => last_action' = last_action ]_vars

\* the same with the suggestion of the fund calculator counted as a kind,
\* and for status alone
C26_StatusKeepsUndoAction ==
    [][ /\ \A ch \in Channels : last_action'[ch].type \in ClaimedKinds \cup {"fund_calc"}
        /\ (Handled /\ last'.cmd = "status") => last_action' = last_action ]_vars

\* while the row of an update fund is in the ledger, no undo answers that the
\* kind of the pending action is unknown
C26_FundUpdateStaysUndoable ==
    ~( /\ last.cmd = "undo" /\ last.reply = "unknown_action"
       /\ \E i \in DOMAIN ledger : ledger[i].type = "Fund Balance" )


\* ---------------------------------------------------------------- C27
\* C27: an identifier that was just inserted is in the seen-set after the
\* insertion, also when the insertion made the set exceed its capacity and
\* the set was cut back, and the set then holds fifty identifiers
C27_JustInsertedIsRetained ==
    [][ \A ch \in Channels, keep \in BOOLEAN :
          Deliver(ch, TRUE, keep)
             => /\ processed_events'.watched
                /\ Size(processed_events) >= MAX_PROCESSED_EVENTS
                       => Size(processed_events') = KEPT_EVENTS ]_vars

\* the cut leaves fifty identifiers, whichever they are
C27_CutKeepsFifty ==
    [][ \A ch \in Channels, watched \in BOOLEAN, keep \in BOOLEAN :
          (Deliver(ch, watched, keep) /\ ~dropped'
             /\ Size(processed_events) >= MAX_PROCESSED_EVENTS)
             => Size(processed_events') = KEPT_EVENTS ]_vars


\* ---------------------------------------------------------------- C28
\* C28: an identifier is recorded as seen only after its message was
\* processed: when the handling of the watched message raised, its identifier
\* is not in the seen-set, and no redelivery of it is dropped as a duplicate
C28_SeenOnlyAfterProcessing ==
    [][ /\ \A ch \in Channels, keep \in BOOLEAN :
             (DeliverOf(ch, RaisingText, TRUE, keep) /\ last'.raised)
                => ~processed_events'.watched
        /\ ~dropped' ]_vars

\* every delivery that was not dropped went through the handler
C28_UndroppedIsHandled ==
    [][ \A ch \in Channels, keep \in BOOLEAN :
          (DeliverOf(ch, RaisingText, TRUE, keep) /\ ~processed_events.watched)
             => last'.raised ]_vars


\* ---------------------------------------------------------------- C29
\* C29: a comma is a decimal point only when exactly one digit and then a K/M
\* suffix follow it; in every other token the commas are thousands separators
\* and are stripped, so "1,500k" evaluates to 1,500,000
C29_CommaIsDecimalOnlyBeforeOneDigit ==
    (call.fn = "parse_amount" /\ Count(call.arg, ",") > 0 /\ call.arg \in CommaTokens)
        => call.ret = [kind |-> "int",
                       v |-> IF ClaimedCommaDecimal(call.arg)
                             THEN ClaimedAmount(ReplaceComma(call.arg))
                             ELSE ClaimedAmount(StripSym(call.arg, {","}))]

\* with exactly one digit between the comma and the suffix the comma is a
\* decimal point, and without a suffix the commas are stripped
C29_OneDigitCommaIsDecimal ==
    (call.fn = "parse_amount" /\ call.arg \in CommaTokens
        /\ (ClaimedCommaDecimal(call.arg) \/ ~HasSuffix(call.arg)))
        => call.ret = [kind |-> "int",
                       v |-> IF ClaimedCommaDecimal(call.arg)
                             THEN ClaimedAmount(ReplaceComma(call.arg))
                             ELSE ClaimedAmount(StripSym(call.arg, {","}))]


\* ---------------------------------------------------------------- C30
\* digits, optionally a dot and digits, optionally one suffix
FitsGrammar(tok) ==
    \E n \in 1..Len(tok), x \in 0..1 :
        /\ AllIn(SubSeq(tok, 1, n), Digits)
        /\ x = 1 => tok[Len(tok)] \in Suffixes
        /\ \/ n + x = Len(tok)
           \/ /\ n + 2 + x <= Len(tok)
              /\ tok[n + 1] = "."
              /\ AllIn(SubSeq(tok, n + 2, Len(tok) - x), Digits)

\* C30: for every token outside the grammar digits[.digits][K|M], such as
\* "1.2.3", "." or "..", parse_amount returns the no-match value: it neither
\* raises nor returns a number
C30_OddTokenIsNoMatch ==
    (call.fn = "parse_amount" /\ ~FitsGrammar(StripSym(call.arg, {","})))
        => call.ret = NoAmount

\* a token with a suffix letter before its end, or with no digit and no dot,
\* is a no-match
C30_MisplacedSuffixIsNoMatch ==
    (call.fn = "parse_amount"
        /\ \E i \in 1..(Len(call.arg) - 1) : call.arg[i] \in Suffixes)
        => call.ret = NoAmount

\* a token of the grammar is never a no-match and never raises
C30_GrammarTokenIsANumber ==
    (call.fn = "parse_amount" /\ FitsGrammar(call.arg)) => call.ret.kind = "int"


\* ---------------------------------------------------------------- C31
\* M/YYYY: one or two digits, a slash, four digits
ClaimedSlashForm(tok) ==
    /\ Len(tok) \in {6, 7}
    /\ tok[Len(tok) - 4] = "/"
    /\ AllIn(SubSeq(tok, 1, Len(tok) - 5), Digits)
    /\ AllIn(SubSeq(tok, Len(tok) - 3, Len(tok)), Digits)

\* YYYY-M[M]: four digits, a dash, one or two digits
ClaimedDashForm(tok) ==
    /\ Len(tok) \in {6, 7}
    /\ tok[5] = "-"
    /\ AllIn(SubSeq(tok, 1, 4), Digits)
    /\ AllIn(SubSeq(tok, 6, Len(tok)), Digits)

\* the (year, month) a month token stands for
ClaimedYearMonth(tok) ==
    IF ClaimedDashForm(tok)
    THEN [year |-> DigitsVal(SubSeq(tok, 1, 4)), month |-> DigitsVal(SubSeq(tok, 6, Len(tok)))]
    ELSE IF ClaimedSlashForm(tok)
    THEN [year |-> DigitsVal(SubSeq(tok, Len(tok) - 3, Len(tok))),
          month |-> DigitsVal(SubSeq(tok, 1, Len(tok) - 5))]
    ELSE [year |-> IF ClaimedMonth(tok) > NowMonth THEN NowYear - 1 ELSE NowYear,
          month |-> ClaimedMonth(tok)]

ClaimedMonthToken(tok) ==
    ClaimedDashForm(tok) \/ ClaimedSlashForm(tok) \/ ClaimedMonth(tok) # 0

\* the position of the first month token of a text, 0 when it has none
ClaimedFormPos(text) == FirstOf({i \in DOMAIN text : ClaimedMonthToken(text[i])})

\* C31: the first token of the form YYYY-M[M], M/YYYY or month name leaves the
\* text and gives the effective (year, month); every other token, later month
\* tokens included, stays in its place
C31_FirstMonthTokenIsConsumed ==
    (call.fn = "extract_month_from_text" /\ ClaimedFormPos(call.arg) # 0)
        => /\ call.ret.text = RemoveAt(call.arg, ClaimedFormPos(call.arg))
           /\ call.ret.year = ClaimedYearMonth(call.arg[ClaimedFormPos(call.arg)]).year
           /\ call.ret.month = ClaimedYearMonth(call.arg[ClaimedFormPos(call.arg)]).month

\* in a text with no M/YYYY token the first YYYY-M[M] token or month name is
\* the one consumed, and only that one
C31_FirstDashOrNamedTokenIsConsumed ==
    (call.fn = "extract_month_from_text" /\ ClaimedFormPos(call.arg) # 0
        /\ \A i \in DOMAIN call.arg : ~ClaimedSlashForm(call.arg[i]))
        => /\ call.ret.text = RemoveAt(call.arg, ClaimedFormPos(call.arg))
           /\ call.ret.year = ClaimedYearMonth(call.arg[ClaimedFormPos(call.arg)]).year
           /\ call.ret.month = ClaimedYearMonth(call.arg[ClaimedFormPos(call.arg)]).month


\* ---------------------------------------------------------------- C32
\* the words of the vocabulary that hold a repayment keyword
ClaimedRepayWords == { W("repay"), W("nhận lại/trả nợ:") }

\* parse_transaction returned a transaction whose description holds a
\* repayment keyword
RepaymentParsed ==
    /\ call.fn = "parse_transaction"
    /\ call.ret.kind = "tx"
    /\ \E i \in DOMAIN call.ret.description : call.ret.description[i] \in ClaimedRepayWords

\* C32: a message with an amount whose description holds a repayment keyword
\* gives type Income and category 'Loan & Debt', whatever the fixed-bill
\* matcher, the loan detector, the classifier and the income check decided
C32_RepaymentIsIncomeLoanAndDebt ==
    RepaymentParsed => call.ret.type = "Income" /\ call.ret.category = "Loan & Debt"

\* `gas repay 150K` with the Fixed Bills sheet at hand: the bill Gas matches and
\* gives the person, the repayment gives the type and the category
C32_Witness ==
    /\ RepaymentParsed
    /\ creds
    /\ call.arg.text = << W("gas"), W("repay"), <<"1", "5", "0", "K">> >>
    /\ call.ret.fixed_bill /\ call.ret.person = "Joint"
    /\ call.ret.type = "Income" /\ call.ret.category = "Loan & Debt"


\* ---------------------------------------------------------------- C33
\* the words of the vocabulary that hold a loan keyword
ClaimedLoanWords == { W("loan"), W("nhận lại/trả nợ:") }

\* parse_transaction returned a transaction whose description holds a loan
\* keyword and no repayment keyword
LoanParsed ==
    /\ call.fn = "parse_transaction"
    /\ call.ret.kind = "tx"
    /\ \E i \in DOMAIN call.ret.description : call.ret.description[i] \in ClaimedLoanWords
    /\ \A i \in DOMAIN call.ret.description : call.ret.description[i] \notin ClaimedRepayWords

\* C33: a message with an amount whose description holds a loan keyword and no
\* repayment keyword gives category 'Loan & Debt' and type Expense, also when
\* the description holds an income keyword as a word
C33_LoanIsExpenseLoanAndDebt ==
    LoanParsed => call.ret.category = "Loan & Debt" /\ call.ret.type = "Expense"

\* a loan description that matches no fixed bill is of category 'Loan & Debt'
C33_LoanWithoutBillIsLoanAndDebt ==
    (LoanParsed /\ ~call.ret.fixed_bill) => call.ret.category = "Loan & Debt"

\* a loan description with no income word that matches no fixed bill is an Expense
C33_LoanWithoutIncomeWordIsExpense ==
    (LoanParsed /\ ~call.ret.fixed_bill
        /\ \A i \in DOMAIN call.ret.description :
               call.ret.description[i] \notin { W("fee"), W("salary") })
        => call.ret.type = "Expense"


\* ---------------------------------------------------------------- C34
\* the transaction the cached entry at position k was built from has left the ledger
Gone(k) ==
    /\ k \in DOMAIN last_list_results["c1"].items
    /\ last_list_results["c1"].items[k].uid \notin Uids(ledger)

\* `delete k` or `edit k <amount>` is handled in this step
Positional(k) ==
    \/ Delete("c1", {k}, 0)
    \/ \E tok \in EditAmounts : Edit("c1", k, tok, 0)

\* C34: once `delete k` has removed the transaction of the cached entry k, a
\* repeated `delete k` or `edit k` on the same cached list deletes and edits
\* no ledger row: that transaction is gone
C34_RepeatedPositionTouchesNoRow ==
    [][ \A k \in 1..MaxTarget : (Positional(k) /\ Gone(k)) => ledger' = ledger ]_vars

\* while every cached entry names its row, `delete k` removes the row of entry k
\* and no other
C34_FirstDeleteRemovesItsRow ==
    [][ \A k \in 1..MaxTarget :
          (Delete("c1", {k}, 0) /\ CacheCurrent /\ last'.reply = "ok")
             => Uids(ledger) \ Uids(ledger') = { last_list_results["c1"].items[k].uid } ]_vars


\* ---------------------------------------------------------------- C35
\* the loan of the cached debt entry n is in the ledger, marked [PAID]
AlreadyPaid(n) ==
    /\ n \in DOMAIN last_debt_list["c1"].items
    /\ \E i \in DOMAIN ledger :
           /\ ledger[i].uid = last_debt_list["c1"].items[n].uid
           /\ StartsPaid(ledger[i].description)

\* C35: a loan is marked paid at most once: `paid k` against a cached debt
\* list whose entry k is already marked paid appends no repayment Income row
C35_PaidAtMostOnce ==
    [][ \A n \in 1..MaxTarget, f \in 0..MaxFail :
          (Paid("c1", n, f) /\ AlreadyPaid(n)) => Len(ledger') = Len(ledger) ]_vars

\* `paid k` that goes through appends one Income row of 'Loan & Debt' with the
\* loan's amount
C35_PaidAppendsOneRepayment ==
    [][ \A n \in 1..MaxTarget, f \in 0..MaxFail :
          (Paid("c1", n, f) /\ last'.reply = "ok")
             => /\ Len(ledger') = Len(ledger) + 1
                /\ ledger'[Len(ledger')].type = "Income"
                /\ ledger'[Len(ledger')].category = "Loan & Debt"
                /\ ledger'[Len(ledger')].amount = last_debt_list["c1"].items[n].amount ]_vars


\* ---------------------------------------------------------------- C36
\* a real first-of-month date: a month of the calendar
ClaimedRealMonth(month_start) == Len(month_start) = 2 /\ month_start[2] \in 1..12

\* the free-form handler ran in this step and appended a row
Logging(text, f) ==
    /\ Transaction("c1", text, "Jacob", f)
    /\ Len(ledger') = Len(ledger) + 1

\* C36: every row appended by free-form logging has an effective month in
\* 1..12, also for a message with a token YYYY-M[M] such as "2024-13" or
\* "2024-0", and when no store call fails the handler sends its reply
C36_LoggedMonthIsReal ==
    [][ \A text \in Texts \cup DatedTexts, f \in 0..MaxFail :
          Logging(text, f)
             => /\ ClaimedRealMonth(ledger'[Len(ledger')].month_start)
                /\ f = 0 => (~last'.raised /\ last'.reply = "ok") ]_vars

\* for a message without a YYYY-M[M] token the logged month is one of the
\* calendar, and the reply is sent when no store call fails
C36_NamedMonthIsReal ==
    [][ \A text \in Texts, f \in 0..MaxFail :
          Logging(text, f)
             => /\ ClaimedRealMonth(ledger'[Len(ledger')].month_start)
                /\ f = 0 => (~last'.raised /\ last'.reply = "ok") ]_vars


\* ---------------------------------------------------------------- C37
\* the identities of the n rows appended last
ClaimedLastRows(L, n) == { L[i].uid : i \in { j \in DOMAIN L : j > Len(L) - n } }

\* `delete last [n]` went through in this step
DeletedLast(ch, n) == DeleteLast(ch, n, 0) /\ last'.reply = "ok"

\* C37: `delete last` removes the row appended last and `delete last N` the N
\* rows appended last, also when several rows share the latest date
C37_DeleteLastRemovesNewestRows ==
    [][ \A ch \in Rooms, n \in 1..MaxTarget :
          DeletedLast(ch, n) => Uids(ledger) \ Uids(ledger') = ClaimedLastRows(ledger, n) ]_vars

\* `delete last N` removes N rows (all of them when there are fewer), none of
\* them dated before a row it leaves
C37_DeleteLastRemovesLatestDates ==
    [][ \A ch \in Rooms, n \in 1..MaxTarget :
          DeletedLast(ch, n)
             => /\ Len(ledger') = (IF n < Len(ledger) THEN Len(ledger) - n ELSE 0)
                /\ \A i \in DOMAIN ledger, j \in DOMAIN ledger' :
                       ledger[i].uid \notin Uids(ledger') => ledger[i].date >= ledger'[j].date ]_vars


\* ---------------------------------------------------------------- C38
\* the thread is handling the watched message and is past the duplicate filter
PassedFilter(t) == threads[t].watched /\ threads[t].pc \in {"log", "count", "store"}

\* the rows the watched message has put into the ledger: they are dated today,
\* the other message is backdated
WatchedRows == { i \in DOMAIN ledger : ledger[i].uid >= FirstId /\ ledger[i].date >= 0 }

\* C38: of two deliveries of one message identifier that are handled at the
\* same time, at most one passes the duplicate filter and at most one row
\* comes into the ledger (while the seen-set was never cut back)
C38_ConcurrentDuplicateIsDropped ==
    ~cut => /\ \A t, u \in Threads : (PassedFilter(t) /\ PassedFilter(u)) => t = u
            /\ Cardinality(WatchedRows) <= 1

\* a delivery that arrives after the identifier was inserted is dropped
C38_LateDuplicateIsDropped ==
    [][ \A t \in Threads :
          (TestSeen(t) /\ threads[t].watched /\ processed_events.watched)
             => threads'[t].pc = "idle" /\ dropped' ]_vars


\* ---------------------------------------------------------------- C39
\* the row that the pending add of a channel names is the row it appended
NamesItsOwnRow(ch) ==
    \A i \in DOMAIN ledger :
        ledger[i].uid = last_action[ch].data.row_data.uid
            => last_action[ch].data.row_index = i + 1

\* C39: the row index stored in an add undo action is the position of the row
\* that its own request appended, also when another transaction message is
\* handled at the same time, so that undo deletes that row and no other
C39_AddIndexIsOfOwnRow ==
    \A ch \in Channels : last_action[ch].type = "add" => NamesItsOwnRow(ch)

\* a request handled with no other request in between stores the index of its
\* own row
C39_LoneRequestStoresOwnIndex ==
    [][ \A t \in Threads :
          (StoreUndo(t) /\ steps = 1)
             => ledger[threads[t].row_index - 1].uid = threads[t].row.uid ]_vars


====
